---- MODULE Spec2Model ----
(***************************************************************************)
(* Multitek DiafonBox integration: the refresh coordinator and its helper  *)
(* queries, the vendor API client (HTTP wrapper, login, door operations),  *)
(* the lock / button unlock actions, the open_door service, the config     *)
(* flow, the doorbell binary sensors, the push set-up and the Pushy        *)
(* client, as state machines whose steps are the code's suspension points  *)
(* (awaits).                                                               *)
(***************************************************************************)
EXTENDS Integers, Sequences, FiniteSets, TLC

VARIABLES
    data,           \* coordinator.data: <<>> (None) or <<snapshot>>
    last_call_ids,  \* coordinator._last_call_ids
    bus,            \* hass.bus: the events fired, in order
    pc,             \* per refresh task: where _async_update_data is suspended
    loc,            \* per refresh task: its local variables
    q,              \* the helper query last evaluated (get_recent_calls)
    now,            \* time.time() * 1000 as read by the code
    door,           \* the unlock / press action in progress and the API client
    http,           \* the _request call last made: what the transport did, what came out
    push,           \* push setup, the Pushy client and its listening loop
    flow,           \* the config flow's step and the login of the entry's set-up
    sensors,        \* the doorbell binary sensors the platform set-up created
    refreshes       \* the refreshes started without the host's serialisation

vars == <<data, last_call_ids, bus, pc, loc, q, now, door, http, push, flow, sensors, refreshes>>

\* Python's None, where a value may be absent.
NONE == "None"

(***************************************************************************)
(* The vendor's data                                                       *)
(***************************************************************************)

\* Longest call-record list the vendor returns in the model.
MaxCalls == 2

\* The locations in a list of the vendor and the rooms of a location, at most.
MaxLocations == 2

MaxRooms == 2

CALL_STATE_MISSED == "Missed"

EVENT_DOORBELL_PRESSED == "multitek_diafonbox_doorbell_pressed"

EVENT_DOOR_OPENED == "multitek_diafonbox_door_opened"

CallRecord(id, state, to, date, location, path) ==
    [call_id |-> id, call_from |-> "gate", call_to |-> to, call_state |-> state,
     date |-> date, location_id |-> location, path |-> path]

\* A date is the vendor's epoch-ms string, kept as its characters.
D1000 == <<"1", "0", "0", "0">>

D61000 == <<"6", "1", "0", "0", "0">>

DBad == <<"n", "a">>

\* The call records the vendor may deliver.
CallRecs ==
    { CallRecord("a", "Missed", "101", D1000, "L1", "snap_a.jpg"),
      CallRecord("b", "Outgoing", "102", D61000, "L1", NONE),
      CallRecord("c", "Missed", "101", DBad, "L1", NONE) }

SeqsUpTo(S, n) == UNION { [1..k -> S] : k \in 0..n }

CallLists == SeqsUpTo(CallRecs, MaxCalls)

Device1 == [sip |-> "dev1", mac |-> "m1", version |-> "1.0"]

Location1 ==
    [location_id |-> "L1", location_name |-> "Home",
     location_devices |-> <<Device1>>]

LocationLists == { <<>>, <<Location1>> }

\* getAccount bodies: a JSON object (with or without a sip) or bare text.
Accounts ==
    { [kind |-> "dict", email |-> "u@x", sip |-> "sip1"],
      [kind |-> "dict", email |-> "u@x", sip |-> NONE],
      [kind |-> "text", email |-> NONE, sip |-> NONE] }

\* What one awaited _request ends in: a body, or an exception.
\* MultitekAuthError is a MultitekAPIError; a request timeout is neither
\* (asyncio.TimeoutError is no aiohttp.ClientError).
Raised == { "MultitekAPIError", "TimeoutError" }

Ok(v) == [exc |-> NONE, body |-> v]

Raise(e) == [exc |-> e, body |-> <<>>]

\* No request made.
NoOutcome == [exc |-> "unasked", body |-> <<>>]

\* No helper query evaluated yet.
NoQuery ==
    [op |-> NONE, call_to |-> NONE, half_minutes |-> 0, at |-> 0,
     raised |-> NONE, result |-> <<>>, count |-> 0]


\* No _request call made yet.
NoRequest ==
    [endpoint |-> NONE,
     transport |-> [kind |-> NONE, status |-> 0, json |-> FALSE, body |-> ""],
     outcome |-> [exc |-> "unasked", body |-> [json |-> FALSE, text |-> ""]]]

\* No config flow step taken, no login made.
NoFlow ==
    [pc |-> "idle", caller |-> NONE,
     transport |-> [kind |-> NONE, status |-> 0, json |-> FALSE, body |-> ""],
     login |-> NONE, log |-> NONE,
     account_transport |-> [kind |-> NONE, status |-> 0, json |-> FALSE, body |-> ""],
     error |-> NONE, result |-> NONE]

\* The binary-sensor platform not set up yet.
NoSensors == [created |-> FALSE, entities |-> <<>>]

\* No call found.
NoCall == [found |-> FALSE, call_id |-> NONE]

\* An action not yet started, with the client's cached SIP.
IdleDoor(user_sip) ==
    [pc |-> "idle", entity |-> NONE, user_sip |-> user_sip,
     arg |-> NONE, location_id |-> NONE, device_sip |-> NONE,
     asked |-> FALSE, vendor_call |-> NoOutcome, active_call |-> NoCall,
     call |-> NoCall,
     requests |-> <<>>, responses |-> <<>>,
     with_call |-> NONE, open_door |-> NONE,
     refreshes |-> 0, caught |-> NONE, escaped |-> NONE]



DEFAULT_SCAN_INTERVAL == 30

\* The coordinator and its Pushy client as constructed, before
\* async_setup_pushy: the setup's position and locals, the client's fields,
\* the listening task, and what was sent, answered and called so far.
NewPush(enable_push) ==
    [pc |-> "idle", enable_push |-> enable_push,
     update_interval |-> DEFAULT_SCAN_INTERVAL, polls |-> <<>>,
     account |-> NoOutcome, credentials |-> NONE, cred_raised |-> NONE,
     pushy_client |-> FALSE, push_connected |-> FALSE,
     setup |-> NONE, caught |-> NONE, escaped |-> NONE, entry |-> NONE,
     topics_arg |-> <<>>,
     authenticated |-> NONE, subscribed |-> NONE, connect |-> NONE,
     connected |-> FALSE, topics |-> <<>>,
     listen_task |-> NONE, cancelled |-> FALSE, sleep |-> 0,
     sent |-> <<>>, answers |-> <<>>, rounds |-> <<>>,
     callbacks |-> <<>>, refresh_requests |-> 0,
     disconnect |-> "idle"]

IdlePush == NewPush(TRUE)

\* A list endpoint's body: a JSON list, or anything else.
ListBodies(S) == { [kind |-> "list", val |-> l] : l \in S } \cup { [kind |-> "text", val |-> <<>>] }

Outcomes(S) == { Ok(b) : b \in S } \cup { Raise(e) : e \in Raised }

(***************************************************************************)
(* API client: the pure fetches                                            *)
(***************************************************************************)

\* result if isinstance(result, list) else []
get_locations(result) == IF result.kind = "list" THEN result.val ELSE <<>>

get_call_records(result) == IF result.kind = "list" THEN result.val ELSE <<>>

(***************************************************************************)
(* Refresh coordinator                                                     *)
(***************************************************************************)

\* The refresh triggers: the polling timer and an out-of-band request.
Tasks == { "timer", "oob" }

Snapshot(locations, call_records, account) ==
    [locations |-> locations, call_records |-> call_records, account |-> account]

NoAccount == [kind |-> "dict", email |-> NONE, sip |-> NONE]

\* Locals of a refresh that is not running. fired and added count what the
\* refresh did to the bus and to the seen set.
IdleLoc ==
    [locations |-> <<>>, call_records |-> <<>>, account |-> NoAccount,
     raised |-> NONE, fetch_exc |-> NONE, fired |-> 0, added |-> {}]

doorbell_event_without_snapshot(call) ==
    [event_type |-> EVENT_DOORBELL_PRESSED,
     call_id |-> call.call_id,
     call_from |-> call.call_from,
     call_to |-> call.call_to,
     location_id |-> call.location_id,
     timestamp |-> call.date,
     snapshot_path |-> NONE]

doorbell_event(call) ==
    [event_type |-> EVENT_DOORBELL_PRESSED,
     call_id |-> call.call_id,
     call_from |-> call.call_from,
     call_to |-> call.call_to,
     location_id |-> call.location_id,
     timestamp |-> call.date,
     snapshot_path |-> call.path]

\* if call_id in self._last_call_ids: continue
already_processed_never(call_id, seen) == FALSE

already_processed(call_id, seen) == call_id \in seen

\* if call_state != CALL_STATE_MISSED: continue
is_doorbell_ring(call) == call.call_state = CALL_STATE_MISSED

\* The loop of _detect_doorbell_events over call_records from index i, with
\* the seen set and the events fired so far; no await in it.
RECURSIVE detect_loop(_, _, _, _)
detect_loop(call_records, i, seen, events) ==
    IF i > Len(call_records) THEN [seen |-> seen, events |-> events]
    ELSE LET call == call_records[i] IN
         IF ~is_doorbell_ring(call) \/ already_processed(call.call_id, seen)
         THEN detect_loop(call_records, i + 1, seen, events)
         ELSE detect_loop(call_records, i + 1, seen \cup {call.call_id},
                          Append(events, doorbell_event(call)))

\* for call in call_records: ... against self._last_call_ids
detect_doorbell_events_from_empty(call_records, seen) ==
    LET d == detect_loop(call_records, 1, {}, <<>>)
    IN [seen |-> seen \cup d.seen, events |-> d.events]

detect_doorbell_events_pruning(call_records, seen) ==
    LET d == detect_loop(call_records, 1, seen, <<>>)
    IN [seen |-> { id \in d.seen : \E i \in DOMAIN call_records :
                                      call_records[i].call_id = id },
        events |-> d.events]

detect_doorbell_events(call_records, seen) == detect_loop(call_records, 1, seen, <<>>)

\* except MultitekAPIError as err: raise UpdateFailed(...) from err
\* Any other exception leaves _async_update_data as it is.
update_failed(exc) == IF exc = "MultitekAPIError" THEN "UpdateFailed" ELSE exc

\* The host runs one refresh at a time: a trigger starts _async_update_data
\* only when no refresh is in flight.
RefreshStart(t) ==
    /\ \A u \in Tasks : pc[u] = "idle"
    /\ pc' = [pc EXCEPT ![t] = "get_locations"]
    /\ loc' = [loc EXCEPT ![t] = IdleLoc]
    /\ UNCHANGED <<data, last_call_ids, bus, q, now, door, http, push, flow, sensors, refreshes>>

\* locations = await self.api.get_locations()
FetchLocations(t) ==
    /\ pc[t] = "get_locations"
    /\ \E r \in Outcomes(ListBodies(LocationLists)) :
         IF r.exc = NONE
         THEN /\ loc' = [loc EXCEPT ![t].locations = get_locations(r.body)]
              /\ pc' = [pc EXCEPT ![t] = "get_call_records"]
         ELSE /\ loc' = [loc EXCEPT ![t].fetch_exc = r.exc,
                                    ![t].raised = update_failed(r.exc)]
              /\ pc' = [pc EXCEPT ![t] = "raise"]
    /\ UNCHANGED <<data, last_call_ids, bus, q, now, door, http, push, flow, sensors, refreshes>>

\* call_records = await self.api.get_call_records()
\* self._detect_doorbell_events(call_records)
FetchCallRecords(t) ==
    /\ pc[t] = "get_call_records"
    /\ \E r \in Outcomes(ListBodies(CallLists)) :
         IF r.exc = NONE
         THEN LET call_records == get_call_records(r.body)
                  d == detect_doorbell_events(call_records, last_call_ids)
              IN /\ last_call_ids' = d.seen
                 /\ bus' = bus \o d.events
                 /\ loc' = [loc EXCEPT ![t].call_records = call_records,
                                       ![t].fired = Len(d.events),
                                       ![t].added = d.seen \ last_call_ids]
                 /\ pc' = [pc EXCEPT ![t] = "get_account"]
         ELSE /\ loc' = [loc EXCEPT ![t].fetch_exc = r.exc,
                                    ![t].raised = update_failed(r.exc)]
              /\ pc' = [pc EXCEPT ![t] = "raise"]
              /\ UNCHANGED <<last_call_ids, bus>>
    /\ UNCHANGED <<data, q, now, door, http, push, flow, sensors, refreshes>>

\* account = await self.api.get_account()
\* _LOGGER.debug("Account SIP: %s", account.get("sip")): a text body has no get
FetchAccount(t) ==
    /\ pc[t] = "get_account"
    /\ \E r \in Outcomes(Accounts) :
         IF r.exc = NONE
         THEN IF r.body.kind = "dict"
              THEN /\ loc' = [loc EXCEPT ![t].account = r.body]
                   /\ pc' = [pc EXCEPT ![t] = "return"]
              ELSE /\ loc' = [loc EXCEPT ![t].raised = update_failed("AttributeError")]
                   /\ pc' = [pc EXCEPT ![t] = "raise"]
         ELSE /\ loc' = [loc EXCEPT ![t].fetch_exc = r.exc,
                                    ![t].raised = update_failed(r.exc)]
              /\ pc' = [pc EXCEPT ![t] = "raise"]
    /\ UNCHANGED <<data, last_call_ids, bus, q, now, door, http, push, flow, sensors, refreshes>>

\* data = {"locations": ..., "call_records": ..., "account": ...}; return data
returned_data_keeps_old_calls(t) ==
    Snapshot(loc[t].locations,
             IF data = <<>> THEN loc[t].call_records ELSE data[1].call_records,
             loc[t].account)

returned_data(t) == Snapshot(loc[t].locations, loc[t].call_records, loc[t].account)

\* The refresh returned: the host stores the returned snapshot as self.data.
RefreshReturn(t) ==
    /\ pc[t] = "return"
    /\ data' = <<returned_data(t)>>
    /\ pc' = [pc EXCEPT ![t] = "idle"]
    /\ loc' = [loc EXCEPT ![t] = IdleLoc]
    /\ UNCHANGED <<last_call_ids, bus, q, now, door, http, push, flow, sensors, refreshes>>

\* The refresh raised: the host records the failure and keeps self.data.
RefreshRaise(t) ==
    /\ pc[t] = "raise"
    /\ pc' = [pc EXCEPT ![t] = "idle"]
    /\ loc' = [loc EXCEPT ![t] = IdleLoc]
    /\ UNCHANGED <<data, last_call_ids, bus, q, now, door, http, push, flow, sensors, refreshes>>

\* MultitekDataUpdateCoordinator.__init__, before the first refresh.
Init ==
    /\ data = <<>>
    /\ last_call_ids = {}
    /\ bus = <<>>
    /\ pc = [t \in Tasks |-> "idle"]
    /\ loc = [t \in Tasks |-> IdleLoc]
    /\ q = NoQuery
    /\ now = 0
    /\ door = IdleDoor(NONE)
    /\ http = NoRequest
    /\ push = IdlePush
    /\ flow = NoFlow
    /\ sensors = NoSensors
    /\ refreshes = 0

Next ==
    \E t \in Tasks :
        \/ RefreshStart(t)
        \/ FetchLocations(t)
        \/ FetchCallRecords(t)
        \/ FetchAccount(t)
        \/ RefreshReturn(t)
        \/ RefreshRaise(t)

Spec == Init /\ [][Next]_vars

\* The coordinator without the host's serialisation: a trigger starts
\* _async_update_data whenever that trigger's own refresh is not running,
\* so that a timer refresh and an out-of-band refresh overlap at their awaits.
\* refreshes counts the refreshes started this way, at most MaxRefreshes.
MaxRefreshes == 2

RefreshStartOverlapping(t) ==
    /\ pc[t] = "idle"
    /\ refreshes < MaxRefreshes
    /\ refreshes' = refreshes + 1
    /\ pc' = [pc EXCEPT ![t] = "get_locations"]
    /\ loc' = [loc EXCEPT ![t] = IdleLoc]
    /\ UNCHANGED <<data, last_call_ids, bus, q, now, door, http, push, flow, sensors>>

OverlapNext ==
    \E t \in Tasks :
        \/ RefreshStartOverlapping(t)
        \/ FetchLocations(t)
        \/ FetchCallRecords(t)
        \/ FetchAccount(t)
        \/ RefreshReturn(t)
        \/ RefreshRaise(t)

OverlapSpec == Init /\ [][OverlapNext]_vars

(***************************************************************************)
(* Helper queries over the cached snapshot                                 *)
(***************************************************************************)

\* The readings of time.time() * 1000 the queries are evaluated at.
NowValues == { 61000, 62000, 310000, 400000, 86401000 }

\* The snapshots a refresh can have cached.
Snapshots ==
    { Snapshot(l, c, a) : l \in LocationLists, c \in CallLists,
                          a \in { x \in Accounts : x.kind = "dict" } }

\* Midnight of the second day.
D86400000 == <<"8", "6", "4", "0", "0", "0", "0", "0">>

\* The caches the helper queries are evaluated on: the snapshots above and
\* those with a call dated at that midnight.
QueryCallLists ==
    SeqsUpTo(CallRecs \cup { CallRecord("d", "Outgoing", "101", D86400000, "L1", NONE) },
             MaxCalls)

QuerySnapshots ==
    { Snapshot(l, c, a) : l \in LocationLists, c \in QueryCallLists,
                          a \in { x \in Accounts : x.kind = "dict" } }

Digits == { "0", "1", "2", "3", "4", "5", "6", "7", "8", "9" }

DigitValue(ch) ==
    CASE ch = "0" -> 0 [] ch = "1" -> 1 [] ch = "2" -> 2 [] ch = "3" -> 3
      [] ch = "4" -> 4 [] ch = "5" -> 5 [] ch = "6" -> 6 [] ch = "7" -> 7
      [] ch = "8" -> 8 [] ch = "9" -> 9

\* int(s) raises ValueError unless s is a non-empty run of decimal digits.
int_raises(s) == s = <<>> \/ \E i \in DOMAIN s : s[i] \notin Digits

RECURSIVE int_digits(_, _, _)
int_digits(s, i, acc) ==
    IF i > Len(s) THEN acc ELSE int_digits(s, i + 1, acc * 10 + DigitValue(s[i]))

\* int(s) of a string of decimal digits.
int(s) == int_digits(s, 1, 0)

\* cutoff_time = current_time - (minutes * 60 * 1000), minutes given in halves
\* (the callers pass 0.5, the default is 1).
cutoff_time(current_time, half_minutes) == current_time - (half_minutes * 60 * 1000) \div 2

\* if call_date < cutoff_time: continue
too_old(call_date, cutoff) == call_date < cutoff

\* if call_to and call.get("call_to") != call_to: continue
other_destination(call, call_to) == call_to # NONE /\ call_to # "" /\ call.call_to # call_to

\* The loop of get_recent_calls from index i: the list built, or the
\* exception int() raised on the way.
RECURSIVE recent_loop(_, _, _, _, _)
recent_loop(calls, i, cutoff, call_to, recent_calls) ==
    IF i > Len(calls) THEN [raised |-> NONE, result |-> recent_calls]
    ELSE LET call == calls[i] IN
         IF int_raises(call.date) THEN [raised |-> "ValueError", result |-> <<>>]
         ELSE IF too_old(int(call.date), cutoff) \/ other_destination(call, call_to)
              THEN recent_loop(calls, i + 1, cutoff, call_to, recent_calls)
              ELSE recent_loop(calls, i + 1, cutoff, call_to, Append(recent_calls, call))

get_recent_calls(call_to, half_minutes) ==
    IF data = <<>> THEN [raised |-> NONE, result |-> <<>>]
    ELSE recent_loop(data[1].call_records, 1, cutoff_time(now, half_minutes), call_to, <<>>)

\* An entity adapter evaluates get_recent_calls(call_to, minutes).
GetRecentCalls ==
    /\ \E call_to \in { NONE, "101", "102" }, half_minutes \in { 1, 2 } :
         LET r == get_recent_calls(call_to, half_minutes) IN
         q' = [op |-> "get_recent_calls", call_to |-> call_to,
               half_minutes |-> half_minutes, at |-> now,
               raised |-> r.raised, result |-> r.result, count |-> 0]
    /\ UNCHANGED <<data, last_call_ids, bus, pc, loc, now, door, http, push, flow, sensors, refreshes>>

\* Milliseconds in a day.
DayMs == 24 * 60 * 60 * 1000

\* datetime.now().replace(hour=0, minute=0, second=0, microsecond=0)
\*     .timestamp() * 1000, for a host whose local time is UTC.
today_start(current_time) == (current_time \div DayMs) * DayMs

\* if call_date >= today_start: count += 1
counted(call_date, start) == call_date >= start

\* The loop of get_today_call_count from index i: the count, or the
\* exception int() raised on the way.
RECURSIVE today_loop(_, _, _, _)
today_loop(calls, i, start, count) ==
    IF i > Len(calls) THEN [raised |-> NONE, count |-> count]
    ELSE IF int_raises(calls[i].date) THEN [raised |-> "ValueError", count |-> 0]
    ELSE today_loop(calls, i + 1, start,
                    IF counted(int(calls[i].date), start) THEN count + 1 ELSE count)

get_today_call_count ==
    IF data = <<>> THEN [raised |-> NONE, count |-> 0]
    ELSE today_loop(data[1].call_records, 1, today_start(now), 0)

\* The doorbell sensors: the building's ("apartman", by location) and a
\* room's (by room number).
Sensors ==
    { [sensor_type |-> "apartman", location_id |-> "L1", room_number |-> NONE],
      [sensor_type |-> "daire", location_id |-> "L1", room_number |-> "101"],
      [sensor_type |-> "daire", location_id |-> "L1", room_number |-> "102"] }

\* The calls _get_last_call collects for a sensor.
sensor_call(sensor, call) ==
    /\ call.call_state = CALL_STATE_MISSED
    /\ IF sensor.sensor_type = "apartman"
       THEN call.location_id = sensor.location_id
       ELSE call.call_to = sensor.room_number

\* calls.sort(key=lambda x: int(x.get("date", 0)), reverse=True); calls[0]:
\* the sort is stable, so of the calls with the greatest date the first one
\* collected comes first.
sorted_first(calls) ==
    CHOOSE i \in DOMAIN calls :
        /\ \A j \in DOMAIN calls : int(calls[j].date) <= int(calls[i].date)
        /\ \A j \in 1..(i - 1) : int(calls[j].date) < int(calls[i].date)

\* _get_last_call: the most recent call of the sensor, None (<<>>) without
\* any, or the exception the sort key raised.
get_last_call(sensor) ==
    IF data = <<>> THEN [raised |-> NONE, result |-> <<>>]
    ELSE LET calls == SelectSeq(data[1].call_records, LAMBDA c : sensor_call(sensor, c))
         IN IF calls = <<>> THEN [raised |-> NONE, result |-> <<>>]
            ELSE IF \E i \in DOMAIN calls : int_raises(calls[i].date)
                 THEN [raised |-> "ValueError", result |-> <<>>]
                 ELSE [raised |-> NONE, result |-> <<calls[sorted_first(calls)]>>]

\* The today-count sensor evaluates get_today_call_count().
GetTodayCallCount ==
    /\ LET r == get_today_call_count IN
         q' = [op |-> "get_today_call_count", call_to |-> NONE, half_minutes |-> 0,
               at |-> now, raised |-> r.raised, result |-> <<>>, count |-> r.count]
    /\ UNCHANGED <<data, last_call_ids, bus, pc, loc, now, door, http, push, flow, sensors, refreshes>>

\* A doorbell sensor evaluates _get_last_call().
GetLastCall ==
    /\ \E sensor \in Sensors :
         LET r == get_last_call(sensor) IN
         q' = [op |-> "get_last_call",
               call_to |-> IF sensor.sensor_type = "apartman" THEN NONE
                           ELSE sensor.room_number,
               half_minutes |-> 0, at |-> now,
               raised |-> r.raised, result |-> r.result, count |-> 0]
    /\ UNCHANGED <<data, last_call_ids, bus, pc, loc, now, door, http, push, flow, sensors, refreshes>>

\* The clock moves on between queries.
Tick ==
    /\ \E t \in NowValues : t > now /\ now' = t
    /\ UNCHANGED <<data, last_call_ids, bus, pc, loc, q, door, http, push, flow, sensors, refreshes>>

\* A coordinator with nothing cached yet or with any snapshot cached.
QueryInit ==
    /\ data \in { <<>> } \cup { <<s>> : s \in QuerySnapshots }
    /\ last_call_ids = {}
    /\ bus = <<>>
    /\ pc = [t \in Tasks |-> "idle"]
    /\ loc = [t \in Tasks |-> IdleLoc]
    /\ q = NoQuery
    /\ now \in NowValues
    /\ door = IdleDoor(NONE)
    /\ http = NoRequest
    /\ push = IdlePush
    /\ flow = NoFlow
    /\ sensors = NoSensors
    /\ refreshes = 0

QueryNext == GetRecentCalls \/ GetTodayCallCount \/ GetLastCall \/ Tick

QuerySpec == QueryInit /\ [][QueryNext]_vars

(***************************************************************************)
(* API client: the door operations                                         *)
(***************************************************************************)

\* A decoded response body: a text or JSON string (s), a JSON number or
\* boolean (n; True is 1), null, or a JSON object.
Value(t, s, n) == [t |-> t, s |-> s, n |-> n]

\* Bodies of addCall, setCallDuration and controlCurrentCall.
CommandBodies ==
    { Value("str", "1", 0), Value("str", "0", 0), Value("str", "", 0),
      Value("int", "", 1), Value("int", "", 0), Value("bool", "", 1),
      Value("null", "", 0), Value("dict", "", 0) }

\* Bodies of askCurrentCall: an object with or without a call_id, or text.
AskBodies ==
    { [kind |-> "dict", call_id |-> "live1"], [kind |-> "dict", call_id |-> "-1"],
      [kind |-> "dict", call_id |-> ""], [kind |-> "dict", call_id |-> NONE],
      [kind |-> "text", call_id |-> NONE] }

\* The names api.py imports from const.
ApiImports ==
    { "API_BASE_URL", "API_PASSWORD", "API_USERNAME", "ENDPOINT_ADD_CALL",
      "ENDPOINT_CONTROL_CURRENT_CALL", "ENDPOINT_GET_ACCOUNT", "ENDPOINT_GET_CALLS",
      "ENDPOINT_GET_LOCATIONS", "ENDPOINT_LOGIN", "ENDPOINT_RESUME_APP",
      "ENDPOINT_SET_CALL_DURATION" }

\* ask_current_call: evaluating ENDPOINT_ASK_CURRENT_CALL raises NameError
\* unless the module has the name, and every exception gives None; with the
\* name, the vendor's answer r counts when it is an object whose call_id
\* (default "-1") is not "-1" and not empty.
ask_current_call(r) ==
    IF "ENDPOINT_ASK_CURRENT_CALL" \notin ApiImports THEN NoCall
    ELSE IF r.exc # NONE THEN NoCall
    ELSE IF /\ r.body.kind = "dict"
            /\ r.body.call_id \notin { NONE, "-1", "" }
         THEN [found |-> TRUE, call_id |-> r.body.call_id]
         ELSE NoCall

\* open_door: success = result == "1" or result == 1
success_any_answer(result) == TRUE

success(result) ==
    \/ (result.t = "str" /\ result.s = "1")
    \/ (result.t \in { "int", "bool" } /\ result.n = 1)

\* open_door_with_call: success = result == "1" or result == 1
with_call_success_unless_zero(result) == ~(result.t = "str" /\ result.s = "0")

with_call_success(result) ==
    \/ (result.t = "str" /\ result.s = "1")
    \/ (result.t \in { "int", "bool" } /\ result.n = 1)

\* duration_result == "1" or duration_result == 1
duration_success_always(duration_result) == TRUE

duration_success(duration_result) ==
    \/ (duration_result.t = "str" /\ duration_result.s = "1")
    \/ (duration_result.t \in { "int", "bool" } /\ duration_result.n = 1)

\* open_door: except MultitekAPIError: raise; except Exception: return False
open_door_except(exc) == IF exc = "MultitekAPIError" THEN exc ELSE "False"

\* The handlers' except Exception: what leaves the handler.
escapes_unless_api_error(exc) == IF exc = "MultitekAPIError" THEN NONE ELSE exc

escapes(exc) == NONE

(***************************************************************************)
(* Lock and button: the unlock / press action                              *)
(***************************************************************************)

Entities == { "lock", "button" }

\* The entity's location and device (the first device of Location1).
EntityLocation == Location1

EntityDevice == Location1.location_devices[1]

Request(endpoint, call_id, call_from, call_to) ==
    [endpoint |-> endpoint, call_id |-> call_id, call_from |-> call_from, call_to |-> call_to]

door_opened_event(entity, method, call_id) ==
    [event_type |-> EVENT_DOOR_OPENED,
     location_id |-> EntityLocation.location_id,
     location_name |-> EntityLocation.location_name,
     device_sip |-> IF entity = "lock" /\ method = "controlCurrentCall"
                    THEN NONE ELSE EntityDevice.sip,
     method |-> method,
     call_id |-> call_id]

\* uuid.uuid4().hex of the open_door invocation.
NewCallId == "uuid1"

\* The lock's search from index i: the first call of its location dated
\* after five_minutes_ago, or the ValueError of int() on the way.
RECURSIVE recent_call_loop(_, _, _)
recent_call_loop(calls, i, five_minutes_ago) ==
    IF i > Len(calls) THEN [raised |-> NONE, found |-> FALSE, call_id |-> NONE]
    ELSE LET call == calls[i] IN
         IF call.location_id # EntityLocation.location_id
         THEN recent_call_loop(calls, i + 1, five_minutes_ago)
         ELSE IF int_raises(call.date)
              THEN [raised |-> "ValueError", found |-> FALSE, call_id |-> NONE]
              ELSE IF int(call.date) > five_minutes_ago
                   THEN [raised |-> NONE, found |-> TRUE, call_id |-> call.call_id]
                   ELSE recent_call_loop(calls, i + 1, five_minutes_ago)

recent_call_last(calls, current_time) ==
    IF calls = <<>> THEN [raised |-> NONE, found |-> FALSE, call_id |-> NONE]
    ELSE [raised |-> NONE, found |-> TRUE, call_id |-> calls[Len(calls)].call_id]

recent_call(calls, current_time) ==
    recent_call_loop(calls, 1, current_time - 5 * 60 * 1000)

\* The handler ends: result of the door operations is in d; exc is the
\* exception its except clause met, if any.
Finish(d, exc) ==
    [d EXCEPT !.pc = "done", !.caught = exc,
              !.escaped = IF exc = NONE THEN NONE ELSE escapes(exc)]

\* open_door up to its first await: getAccount when no SIP is cached,
\* addCall otherwise.
SendAddCall(d) ==
    [d EXCEPT !.pc = "add_call",
              !.requests = Append(@, Request("addCall", NewCallId, d.user_sip,
                                             d.device_sip))]

EnterOpenDoor(d) ==
    IF d.user_sip = NONE
    THEN [d EXCEPT !.pc = "get_account",
                   !.requests = Append(@, Request("getAccount", NONE, NONE, NONE))]
    ELSE SendAddCall(d)

\* open_door_with_call up to its await.
SendControlCurrentCall(d, call) ==
    [d EXCEPT !.pc = "control_current_call", !.call = call,
              !.requests = Append(@, Request("controlCurrentCall", call.call_id,
                                             NONE, NONE))]

\* async_unlock up to its first await.
Unlock ==
    /\ door.pc = "idle"
    /\ LET d == [door EXCEPT !.entity = "lock",
                             !.location_id = EntityLocation.location_id,
                             !.device_sip = EntityDevice.sip]
           r == recent_call(data[1].call_records, now)
       IN door' = IF r.raised # NONE THEN Finish(d, r.raised)
                  ELSE IF r.found THEN SendControlCurrentCall(d, [found |-> TRUE, call_id |-> r.call_id])
                  ELSE EnterOpenDoor(d)
    /\ UNCHANGED <<data, last_call_ids, bus, pc, loc, q, now, http, push, flow, sensors, refreshes>>

\* async_press up to its first await that reaches the vendor; the vendor
\* would answer askCurrentCall with r.
Press ==
    /\ door.pc = "idle"
    /\ \E r \in Outcomes(AskBodies) :
         LET active_call == ask_current_call(r)
             d == [door EXCEPT !.entity = "button",
                              !.location_id = EntityLocation.location_id,
                              !.device_sip = EntityDevice.sip,
                              !.asked = TRUE, !.vendor_call = r,
                              !.active_call = active_call]
         IN door' = IF active_call.found THEN SendControlCurrentCall(d, active_call)
                    ELSE EnterOpenDoor(d)
    /\ UNCHANGED <<data, last_call_ids, bus, pc, loc, q, now, http, push, flow, sensors, refreshes>>

\* The door was opened and the event fired: the lock then requests a refresh
\* (await self.coordinator.async_request_refresh()), the button does not.
Opened(d) ==
    [d EXCEPT !.pc = "done",
              !.refreshes = IF d.entity = "lock" THEN @ + 1 ELSE @]

\* result = await self._request(ENDPOINT_CONTROL_CURRENT_CALL, data)
ControlCurrentCallResponse ==
    /\ door.pc = "control_current_call"
    /\ \E r \in Outcomes(CommandBodies) :
         LET d == [door EXCEPT !.responses = Append(@, [endpoint |-> "controlCurrentCall", r |-> r])]
         IN IF r.exc # NONE
            THEN /\ door' = Finish([d EXCEPT !.with_call = r.exc], r.exc)
                 /\ UNCHANGED bus
            ELSE IF with_call_success(r.body)
            THEN /\ door' = Opened([d EXCEPT !.with_call = "True"])
                 /\ bus' = Append(bus, door_opened_event(d.entity, "controlCurrentCall", d.call.call_id))
            ELSE /\ door' = EnterOpenDoor([d EXCEPT !.with_call = "False"])
                 /\ UNCHANGED bus
    /\ UNCHANGED <<data, last_call_ids, pc, loc, q, now, http, push, flow, sensors, refreshes>>

\* open_door returned or raised: the handler's success / else / except.
OpenDoorEnds(d, result) ==
    IF result = "True" THEN Opened([d EXCEPT !.open_door = result])
    ELSE IF result = "False" THEN Finish([d EXCEPT !.open_door = result], NONE)
    ELSE Finish([d EXCEPT !.open_door = result], result)

\* account = await self.get_account(); self._user_sip = account.get("sip")
GetAccountResponse ==
    /\ door.pc = "get_account"
    /\ \E r \in Outcomes(Accounts) :
         LET d == [door EXCEPT !.responses = Append(@, [endpoint |-> "getAccount", r |-> r])]
         IN door' =
              IF r.exc # NONE THEN OpenDoorEnds(d, open_door_except(r.exc))
              ELSE IF r.body.kind # "dict"
                   THEN OpenDoorEnds(d, open_door_except("AttributeError"))
              ELSE IF r.body.sip = NONE
                   THEN OpenDoorEnds(d, open_door_except("MultitekAPIError"))
              ELSE SendAddCall([d EXCEPT !.user_sip = r.body.sip])
    /\ UNCHANGED <<data, last_call_ids, bus, pc, loc, q, now, http, push, flow, sensors, refreshes>>

\* result = await self._request(ENDPOINT_ADD_CALL, data)
AddCallResponse ==
    /\ door.pc = "add_call"
    /\ \E r \in Outcomes(CommandBodies) :
         LET d == [door EXCEPT !.responses = Append(@, [endpoint |-> "addCall", r |-> r])]
         IN door' =
              IF r.exc # NONE THEN OpenDoorEnds(d, open_door_except(r.exc))
              ELSE IF ~success(r.body) THEN OpenDoorEnds(d, "False")
              ELSE [d EXCEPT !.pc = "set_call_duration",
                             !.requests = Append(@, Request("setCallDuration", NewCallId,
                                                            NONE, NONE))]
    /\ UNCHANGED <<data, last_call_ids, bus, pc, loc, q, now, http, push, flow, sensors, refreshes>>

\* duration_result = await self._request(ENDPOINT_SET_CALL_DURATION, duration_data)
SetCallDurationResponse ==
    /\ door.pc = "set_call_duration"
    /\ \E r \in Outcomes(CommandBodies) :
         LET d == [door EXCEPT !.responses = Append(@, [endpoint |-> "setCallDuration", r |-> r])]
             result == IF r.exc # NONE THEN open_door_except(r.exc)
                       ELSE IF duration_success(r.body) THEN "True" ELSE "False"
         IN /\ door' = OpenDoorEnds(d, result)
            /\ bus' = IF result = "True" /\ d.entity \in Entities
                      THEN Append(bus, door_opened_event(d.entity, "addCall", NONE))
                      ELSE bus
    /\ UNCHANGED <<data, last_call_ids, pc, loc, q, now, http, push, flow, sensors, refreshes>>

\* A set-up integration: a snapshot is cached, the client's SIP is cached
\* (login) or not, and no action is running.
DoorInit ==
    /\ data \in { <<s>> : s \in Snapshots }
    /\ last_call_ids = {}
    /\ bus = <<>>
    /\ pc = [t \in Tasks |-> "idle"]
    /\ loc = [t \in Tasks |-> IdleLoc]
    /\ q = NoQuery
    /\ now \in NowValues
    /\ door \in { IdleDoor(sip) : sip \in { NONE, "sip1" } }
    /\ http = NoRequest
    /\ push = IdlePush
    /\ flow = NoFlow
    /\ sensors = NoSensors
    /\ refreshes = 0

DoorNext ==
    \/ Unlock
    \/ Press
    \/ ControlCurrentCallResponse
    \/ GetAccountResponse
    \/ AddCallResponse
    \/ SetCallDurationResponse

DoorSpec == DoorInit /\ [][DoorNext]_vars

(***************************************************************************)
(* The open_door service                                                   *)
(***************************************************************************)

\* A device the vendor lists without a sip.
DeviceNoSip == [sip |-> NONE, mac |-> "m2", version |-> "1.0"]

\* A location of the service's snapshot: its id and its devices.
ServiceSite(location_id, location_devices) ==
    [location_id |-> location_id, location_name |-> "Home",
     location_devices |-> location_devices]

\* The lists of locations, none listed twice; a location has no
\* device, one device, or a device without sip.
ServiceLocationLists ==
    { l \in SeqsUpTo({ ServiceSite(id, devices) :
                         id \in { "L1", "L2" },
                         devices \in { <<>>, <<Device1>>, <<DeviceNoSip>> } },
                     MaxLocations) :
        \A i, j \in DOMAIN l : l[i].location_id = l[j].location_id => i = j }

\* call.data.get("location_id"): not given, empty, a listed id or an unknown one.
LocationArgs == { NONE, "", "L1", "L2", "L9" }

\* for loc in locations: the first location with the id, from index i.
RECURSIVE device_of_location(_, _, _)
device_of_location(locations, i, location_id) ==
    IF i > Len(locations) THEN NONE
    ELSE IF locations[i].location_id = location_id
         THEN IF locations[i].location_devices # <<>>
              THEN locations[i].location_devices[1].sip
              ELSE NONE
         ELSE device_of_location(locations, i + 1, location_id)

\* async_open_door up to "if not device_sip": without a location id the
\* first location and the first entry of its device list, taken outside
\* the try block, so that an empty list raises IndexError.
resolve(locations, location_id) ==
    IF location_id \in { NONE, "" }
    THEN IF locations # <<>>
         THEN IF locations[1].location_devices = <<>>
              THEN [raised |-> "IndexError", returned |-> FALSE,
                    location_id |-> locations[1].location_id, device_sip |-> NONE]
              ELSE [raised |-> NONE, returned |-> FALSE,
                    location_id |-> locations[1].location_id,
                    device_sip |-> locations[1].location_devices[1].sip]
         ELSE [raised |-> NONE, returned |-> TRUE,
               location_id |-> location_id, device_sip |-> NONE]
    ELSE [raised |-> NONE, returned |-> FALSE, location_id |-> location_id,
          device_sip |-> device_of_location(locations, 1, location_id)]

\* The service call up to its first await, or to its end.
OpenDoorService ==
    /\ door.pc = "idle"
    /\ \E location_id \in LocationArgs :
         LET r == resolve(data[1].locations, location_id)
             d == [door EXCEPT !.entity = "service", !.arg = location_id,
                              !.location_id = r.location_id,
                              !.device_sip = r.device_sip]
         IN door' = IF r.raised # NONE
                    THEN [d EXCEPT !.pc = "done", !.escaped = r.raised]
                    ELSE IF r.returned \/ r.device_sip \in { NONE, "" }
                    THEN Finish(d, NONE)
                    ELSE EnterOpenDoor(d)
    /\ UNCHANGED <<data, last_call_ids, bus, pc, loc, q, now, http, push, flow, sensors, refreshes>>

\* A set-up integration with any list of locations cached.
ServiceInit ==
    /\ data \in { <<Snapshot(l, <<>>, a)>> :
                    l \in ServiceLocationLists,
                    a \in { x \in Accounts : x.kind = "dict" } }
    /\ last_call_ids = {}
    /\ bus = <<>>
    /\ pc = [t \in Tasks |-> "idle"]
    /\ loc = [t \in Tasks |-> IdleLoc]
    /\ q = NoQuery
    /\ now = 0
    /\ door \in { IdleDoor(sip) : sip \in { NONE, "sip1" } }
    /\ http = NoRequest
    /\ push = IdlePush
    /\ flow = NoFlow
    /\ sensors = NoSensors
    /\ refreshes = 0

ServiceNext ==
    \/ OpenDoorService
    \/ GetAccountResponse
    \/ AddCallResponse
    \/ SetCallDurationResponse

ServiceSpec == ServiceInit /\ [][ServiceNext]_vars

(***************************************************************************)
(* API client: the HTTP wrapper                                            *)
(***************************************************************************)

\* The endpoints the client posts to.
Endpoints ==
    { "userAccountControl", "getUserLocations", "getCallAllRecords", "addCall",
      "getAccount", "resumeApp", "setCallDuration", "controlCurrentCall" }

\* What session.post can end in: a response (its status, whether its
\* Content-Type holds "application/json", its body text), an
\* aiohttp.ClientError (a connection failure; a socket timeout is a
\* ServerTimeoutError, which is one too), or the asyncio.TimeoutError of the
\* 30 s total timeout, which is no aiohttp.ClientError.
Response(status, json, body) ==
    [kind |-> "response", status |-> status, json |-> json, body |-> body]

Failure(kind) == [kind |-> kind, status |-> 0, json |-> FALSE, body |-> ""]

ClientErrors == { "ClientConnectorError", "ServerTimeoutError" }

Transports ==
    { Response(st, j, b) : st \in { 200, 401, 404, 500 }, j \in BOOLEAN,
                           b \in { "1", "[]", "<html>" } }
        \cup { Failure(k) : k \in ClientErrors \cup { "TimeoutError" } }

\* The account object getAccount answers with, as JSON text.
AccountJson == "{'email': 'u@x', 'sip': 'sip1'}"

\* The bodies that are JSON texts: a number, an empty list, an empty object,
\* the account object.
JsonTexts == { "1", "[]", "{}", AccountJson }

\* response.json() raises JSONDecodeError on a body that is no JSON text.
json_raises(body) == body \notin JsonTexts

\* except aiohttp.ClientError as err: raise MultitekAPIError(...) from err
request_except(kind) == IF kind \in ClientErrors THEN "MultitekAPIError" ELSE kind

\* _request: the body it returns or the exception that leaves it.
\* MultitekAuthError is a MultitekAPIError.
_request(t) ==
    IF t.kind # "response" THEN [exc |-> request_except(t.kind),
                                 body |-> [json |-> FALSE, text |-> ""]]
    ELSE IF t.status = 401
         THEN [exc |-> "MultitekAuthError", body |-> [json |-> FALSE, text |-> ""]]
    ELSE IF t.status # 200
         THEN [exc |-> "MultitekAPIError", body |-> [json |-> FALSE, text |-> ""]]
    ELSE IF t.json
         THEN IF json_raises(t.body)
              THEN [exc |-> "JSONDecodeError", body |-> [json |-> FALSE, text |-> ""]]
              ELSE [exc |-> NONE, body |-> [json |-> TRUE, text |-> t.body]]
         ELSE [exc |-> NONE, body |-> [json |-> FALSE, text |-> t.body]]

\* await self._request(endpoint, data)
AwaitRequest ==
    /\ \E endpoint \in Endpoints, t \in Transports :
         http' = [endpoint |-> endpoint, transport |-> t, outcome |-> _request(t)]
    /\ UNCHANGED <<data, last_call_ids, bus, pc, loc, q, now, door, push, flow, sensors, refreshes>>

RequestInit ==
    /\ data = <<>>
    /\ last_call_ids = {}
    /\ bus = <<>>
    /\ pc = [t \in Tasks |-> "idle"]
    /\ loc = [t \in Tasks |-> IdleLoc]
    /\ q = NoQuery
    /\ now = 0
    /\ door = IdleDoor(NONE)
    /\ http = NoRequest
    /\ push = IdlePush
    /\ flow = NoFlow
    /\ sensors = NoSensors
    /\ refreshes = 0

RequestNext == AwaitRequest

RequestSpec == RequestInit /\ [][RequestNext]_vars

(***************************************************************************)
(* Login: the set-up of the config entry and the config flow               *)
(***************************************************************************)

\* What the getAccount request of a login can meet: the transports of the
\* wrapper, with the account object and an empty object among the bodies.
AccountTransports ==
    { Response(st, j, b) : st \in { 200, 401, 404, 500 }, j \in BOOLEAN,
                           b \in { "1", "[]", "<html>", "{}", AccountJson } }
        \cup { Failure(k) : k \in ClientErrors \cup { "TimeoutError" } }

\* bool(account): an empty list, an empty object and an empty text are false.
account_truthy(body) ==
    IF body.json THEN body.text \notin { "[]", "{}" } ELSE body.text # ""

\* "email" in account raises TypeError on a number.
in_raises(body) == body.json /\ body.text = "1"

\* "email" in account: a key of the object, or a substring of a text body.
has_email(body) == body.text = AccountJson

\* account.get(...): only an object has get.
get_raises(body) == ~(body.json /\ body.text \in { "{}", AccountJson })

\* login, given what its get_account ended in: every MultitekAPIError and
\* every other exception gives False.
login(o) ==
    IF o.exc \in { "MultitekAPIError", "MultitekAuthError" }
    THEN [result |-> FALSE, log |-> "Login failed"]
    ELSE IF o.exc # NONE
    THEN [result |-> FALSE, log |-> "Unexpected error during login"]
    ELSE IF ~account_truthy(o.body)
    THEN [result |-> FALSE, log |-> "Invalid response"]
    ELSE IF in_raises(o.body)
    THEN [result |-> FALSE, log |-> "Unexpected error during login"]
    ELSE IF ~has_email(o.body)
    THEN [result |-> FALSE, log |-> "Invalid response"]
    ELSE IF get_raises(o.body)
    THEN [result |-> FALSE, log |-> "Unexpected error during login"]
    ELSE [result |-> TRUE, log |-> "Login successful"]

\* async_step_user: except MultitekAuthError / MultitekAPIError / Exception
async_step_user_error(exc) ==
    IF exc = "MultitekAuthError" THEN "invalid_auth"
    ELSE IF exc = "MultitekAPIError" THEN "cannot_connect"
    ELSE "unknown"

\* async_setup_entry up to its first await: api.login().
SetupEntry ==
    /\ flow.pc = "idle"
    /\ flow' = [flow EXCEPT !.pc = "login", !.caller = "async_setup_entry"]
    /\ UNCHANGED <<data, last_call_ids, bus, pc, loc, q, now, door, http, push, sensors, refreshes>>

\* async_step_user with user input, up to validate_input's api.login().
StepUser ==
    /\ flow.pc = "idle"
    /\ flow' = [flow EXCEPT !.pc = "login", !.caller = "async_step_user"]
    /\ UNCHANGED <<data, last_call_ids, bus, pc, loc, q, now, door, http, push, sensors, refreshes>>

\* if not await api.login(): the set-up logs "Failed to authenticate" and
\* returns False; validate_input raises MultitekAuthError, which the step
\* shows as invalid_auth. After a True the set-up goes on to the coordinator
\* and validate_input to its own get_account.
LoginReturns ==
    /\ flow.pc = "login"
    /\ \E t \in AccountTransports :
         LET l == login(_request(t))
             f == [flow EXCEPT !.transport = t,
                               !.login = IF l.result THEN "True" ELSE "False",
                               !.log = l.log]
         IN flow' =
              IF flow.caller = "async_setup_entry"
              THEN IF l.result
                   THEN [f EXCEPT !.pc = "done", !.result = "continues"]
                   ELSE [f EXCEPT !.pc = "done", !.error = "Failed to authenticate",
                                  !.result = "False"]
              ELSE IF l.result
                   THEN [f EXCEPT !.pc = "get_account"]
                   ELSE [f EXCEPT !.pc = "done",
                                  !.error = async_step_user_error("MultitekAuthError"),
                                  !.result = "form"]
    /\ UNCHANGED <<data, last_call_ids, bus, pc, loc, q, now, door, http, push, sensors, refreshes>>

\* account = await api.get_account(); user_name = account.get("user_name", "")
AccountReturns ==
    /\ flow.pc = "get_account"
    /\ \E t \in AccountTransports :
         LET o == _request(t)
             f == [flow EXCEPT !.pc = "done", !.account_transport = t]
         IN flow' =
              IF o.exc # NONE
              THEN [f EXCEPT !.error = async_step_user_error(o.exc), !.result = "form"]
              ELSE IF get_raises(o.body)
              THEN [f EXCEPT !.error = async_step_user_error("AttributeError"),
                             !.result = "form"]
              ELSE [f EXCEPT !.result = "create_entry"]
    /\ UNCHANGED <<data, last_call_ids, bus, pc, loc, q, now, door, http, push, sensors, refreshes>>

ConfigNext == SetupEntry \/ StepUser \/ LoginReturns \/ AccountReturns

ConfigSpec == RequestInit /\ [][ConfigNext]_vars

(***************************************************************************)
(* Binary sensors: the doorbell sensors of the platform set-up             *)
(***************************************************************************)

\* const.DOMAIN
INTEGRATION_DOMAIN == "multitek_diafonbox"

Room(block_num, room_num) == [block_num |-> block_num, room_num |-> room_num]

Rooms == { Room("A", "1"), Room("A", "2"), Room("B", "1") }

\* The rooms of a location: no room is listed twice.
RoomLists ==
    { r \in SeqsUpTo(Rooms, MaxRooms) : \A i, j \in DOMAIN r : r[i] = r[j] => i = j }

\* A location as getUserLocations lists it, with its devices and rooms.
Site(location_id, location_devices, location_rooms) ==
    [location_id |-> location_id, location_name |-> "Home " \o location_id,
     location_devices |-> location_devices, location_rooms |-> location_rooms]

\* The lists of locations with rooms: no location id is listed twice.
SensorLocationLists ==
    { l \in SeqsUpTo({ Site(id, <<Device1>>, rooms) :
                         id \in { "L1", "L2" }, rooms \in RoomLists },
                     MaxLocations) :
        \A i, j \in DOMAIN l : l[i].location_id = l[j].location_id => i = j }

\* f"{DOMAIN}_{location_id}_doorbell_entrance" for the entrance sensor,
\* f"{DOMAIN}_{location_id}_doorbell_apartment" for a room's sensor.
unique_id(sensor_type, location_id) ==
    IF sensor_type = "apartman"
    THEN INTEGRATION_DOMAIN \o "_" \o location_id \o "_doorbell_entrance"
    ELSE INTEGRATION_DOMAIN \o "_" \o location_id \o "_doorbell_apartment"

\* MultitekDoorbellSensor.__init__
MultitekDoorbellSensor(location_id, location_name, sensor_type, room_number) ==
    [location_id |-> location_id, sensor_type |-> sensor_type,
     room_number |-> room_number,
     name |-> location_name \o (IF sensor_type = "apartman"
                                 THEN " Apartman Zili" ELSE " Daire Zili"),
     unique_id |-> unique_id(sensor_type, location_id)]

\* room_number = f"{room.get('block_num')}{room.get('room_num')}"
room_number_of(room) == room.block_num \o room.room_num

\* for room in rooms: from index i
RECURSIVE room_sensors(_, _, _)
room_sensors(location, i, entities) ==
    IF i > Len(location.location_rooms) THEN entities
    ELSE LET room_number == room_number_of(location.location_rooms[i]) IN
         room_sensors(location, i + 1,
                      IF room_number # ""
                      THEN Append(entities,
                                  MultitekDoorbellSensor(location.location_id,
                                                         location.location_name,
                                                         "daire", room_number))
                      ELSE entities)

\* for location in locations: from index i
RECURSIVE doorbell_sensors(_, _, _)
doorbell_sensors(locations, i, entities) ==
    IF i > Len(locations) THEN entities
    ELSE LET location == locations[i] IN
         doorbell_sensors(locations, i + 1,
                          room_sensors(location, 1,
                                       Append(entities,
                                              MultitekDoorbellSensor(location.location_id,
                                                                     location.location_name,
                                                                     "apartman", NONE))))

\* binary_sensor.async_setup_entry: async_add_entities(entities)
SetupBinarySensors ==
    /\ ~sensors.created
    /\ sensors' = [created |-> TRUE,
                   entities |-> doorbell_sensors(data[1].locations, 1, <<>>)]
    /\ UNCHANGED <<data, last_call_ids, bus, pc, loc, q, now, door, http, push, flow, refreshes>>

\* The first refresh stored a snapshot; the platform is not set up yet.
SensorInit ==
    /\ data \in { <<Snapshot(l, <<>>, NoAccount)>> : l \in SensorLocationLists }
    /\ last_call_ids = {}
    /\ bus = <<>>
    /\ pc = [t \in Tasks |-> "idle"]
    /\ loc = [t \in Tasks |-> IdleLoc]
    /\ q = NoQuery
    /\ now = 0
    /\ door = IdleDoor(NONE)
    /\ http = NoRequest
    /\ push = IdlePush
    /\ flow = NoFlow
    /\ sensors = NoSensors
    /\ refreshes = 0

SensorNext == SetupBinarySensors

SensorSpec == SensorInit /\ [][SensorNext]_vars

(***************************************************************************)
(* Push set-up: credentials, topics, and the set-up of the config entry    *)
(***************************************************************************)

\* Most listen rounds the vendor answers; a further listen request stays
\* pending.
MaxListens == 2

\* Most firings of the polling timer.
MaxPolls == 1

Phone(token) == [token |-> token]

PhoneList(present, phones) == [present |-> present, phones |-> phones]

\* getAccount bodies as get_pushy_credentials reads them: an object without
\* a phone_list, with an empty one, with phones with or without a token, or
\* bare text.
PushAccounts ==
    { [kind |-> "dict", phone_list |-> pl] :
        pl \in { PhoneList(FALSE, <<>>), PhoneList(TRUE, <<>>),
                 PhoneList(TRUE, <<Phone(NONE)>>), PhoneList(TRUE, <<Phone("")>>),
                 PhoneList(TRUE, <<Phone("tok1")>>),
                 PhoneList(TRUE, <<Phone(NONE), Phone("tok1")>>) } }
        \cup { [kind |-> "text", phone_list |-> PhoneList(FALSE, <<>>)] }

\* What get_account ends in for the set-up.
AccountOutcomes ==
    { Ok(a) : a \in PushAccounts }
        \cup { Raise(e) : e \in { "MultitekAPIError", "MultitekAuthError", "TimeoutError" } }

\* if not token: return None
token_missing_only_absent(token) == token = NONE

token_missing(token) == token \in { NONE, "" }

\* get_pushy_credentials on the outcome r of get_account: the token, None, or
\* the exception that leaves it (it has no try of its own).
get_pushy_credentials(r) ==
    IF r.exc # NONE THEN [raised |-> r.exc, credentials |-> NONE]
    ELSE IF r.body.kind # "dict" THEN [raised |-> "AttributeError", credentials |-> NONE]
    ELSE LET phone_list == IF r.body.phone_list.present
                           THEN r.body.phone_list.phones ELSE <<>>
         IN IF phone_list = <<>> THEN [raised |-> NONE, credentials |-> NONE]
            ELSE IF token_missing(phone_list[1].token)
                 THEN [raised |-> NONE, credentials |-> NONE]
                 ELSE [raised |-> NONE, credentials |-> phone_list[1].token]

\* The topic list: each location's topic, then the general one (the
\* locations here have no rooms).
Topic(location_id, suffix) == <<location_id, suffix>>

RECURSIVE location_topics(_, _)
location_topics(locations, i) ==
    IF i > Len(locations) THEN <<>>
    ELSE <<Topic(locations[i].location_id, "_LOCATION_TOPIC")>>
            \o location_topics(locations, i + 1)

build_topics(locations) == location_topics(locations, 1) \o <<Topic("", "MULTITEK")>>

\* async_setup_pushy: except Exception as err: return False
setup_escapes_unless_api_error(exc) ==
    IF exc \in { "MultitekAPIError", "MultitekAuthError" } THEN NONE ELSE exc

setup_escapes(exc) == NONE

\* async_setup_pushy returns False, having caught exc if any.
SetupFalse(p, exc) ==
    [p EXCEPT !.pc = "setup_done", !.caught = exc,
              !.setup = IF exc # NONE /\ setup_escapes(exc) # NONE THEN NONE ELSE "False",
              !.escaped = IF exc = NONE THEN NONE ELSE setup_escapes(exc)]

\* A request of the Pushy client.
PushySent(endpoint, topics) == [endpoint |-> endpoint, topics |-> topics]

\* async_setup_entry reaches await coordinator.async_setup_pushy().
SetupPushy ==
    /\ push.pc = "idle"
    /\ push' = IF ~push.enable_push THEN SetupFalse(push, NONE)
               ELSE [push EXCEPT !.pc = "get_pushy_credentials"]
    /\ UNCHANGED <<data, last_call_ids, bus, pc, loc, q, now, door, http, flow, sensors, refreshes>>

\* credentials = await self.api.get_pushy_credentials(); then the client is
\* created and get_locations awaited.
CredentialsResponse ==
    /\ push.pc = "get_pushy_credentials"
    /\ \E r \in AccountOutcomes :
         LET c == get_pushy_credentials(r)
             p == [push EXCEPT !.account = r, !.cred_raised = c.raised,
                               !.credentials = c.credentials]
         IN push' = IF c.raised # NONE THEN SetupFalse(p, c.raised)
                    ELSE IF c.credentials = NONE THEN SetupFalse(p, NONE)
                    ELSE [p EXCEPT !.pushy_client = TRUE, !.pc = "get_locations"]
    /\ UNCHANGED <<data, last_call_ids, bus, pc, loc, q, now, door, http, flow, sensors, refreshes>>

\* locations = await self.api.get_locations(); the topics are built and
\* connect(topics) starts with the authentication request.
LocationsResponse ==
    /\ push.pc = "get_locations"
    /\ \E r \in Outcomes(ListBodies(LocationLists)) :
         push' = IF r.exc # NONE THEN SetupFalse(push, r.exc)
                 ELSE IF get_locations(r.body) = <<>> THEN SetupFalse(push, NONE)
                 ELSE [push EXCEPT !.pc = "authenticate",
                                   !.topics_arg = build_topics(get_locations(r.body)),
                                   !.sent = Append(@, PushySent("auth", <<>>))]
    /\ UNCHANGED <<data, last_call_ids, bus, pc, loc, q, now, door, http, flow, sensors, refreshes>>

\* async_setup_pushy has returned: the rest of async_setup_entry.
SetupEntryReturns ==
    /\ push.pc = "setup_done"
    /\ push.entry = NONE
    /\ push' = [push EXCEPT !.entry = IF push.escaped = NONE THEN "True"
                                      ELSE push.escaped]
    /\ UNCHANGED <<data, last_call_ids, bus, pc, loc, q, now, door, http, flow, sensors, refreshes>>

\* The polling timer of the coordinator fires (update_interval is set).
TimerFires ==
    /\ push.update_interval # 0
    /\ Len(push.polls) < MaxPolls
    /\ push' = [push EXCEPT !.polls = Append(@, push.setup)]
    /\ UNCHANGED <<data, last_call_ids, bus, pc, loc, q, now, door, http, flow, sensors, refreshes>>

(***************************************************************************)
(* Pushy client: connect, the listening loop, disconnect                   *)
(***************************************************************************)

\* The notification field of a listen result: absent, null, an object with
\* size keys (its "data", if it has one), or a string of size characters.
Notification(t, size, payload) == [t |-> t, size |-> size, data |-> payload]

NoNotification == Notification("absent", 0, NONE)

Notifications ==
    { NoNotification, Notification("null", 0, NONE), Notification("dict", 0, NONE),
      Notification("dict", 1, "ring1"), Notification("dict", 1, NONE),
      Notification("str", 4, NONE) }

\* What a post of the Pushy client ends in: a response (status, the JSON
\* type of its body, its "success" and "notification" fields) or an
\* exception.
PushyResponse(status, t, success_field, notification) ==
    [kind |-> "response", status |-> status, t |-> t, success |-> success_field,
     notification |-> notification]

PushyFailure(kind) ==
    [kind |-> kind, status |-> 0, t |-> NONE, success |-> "absent",
     notification |-> NoNotification]

PushyFailures == { PushyFailure("ClientConnectorError"), PushyFailure("TimeoutError") }

\* Answers to auth, subscribe and unsubscribe.
PushyOutcomes ==
    { PushyResponse(200, "dict", "true", NoNotification),
      PushyResponse(200, "dict", "false", NoNotification),
      PushyResponse(200, "dict", "absent", NoNotification),
      PushyResponse(200, "list", "absent", NoNotification),
      PushyResponse(200, "garbage", "absent", NoNotification),
      PushyResponse(401, "dict", "false", NoNotification),
      PushyResponse(500, "dict", "true", NoNotification) }
        \cup PushyFailures

\* Answers to listen.
ListenOutcomes ==
    { PushyResponse(200, "dict", "absent", n) : n \in Notifications }
        \cup { PushyResponse(200, "list", "absent", NoNotification),
               PushyResponse(200, "garbage", "absent", NoNotification),
               PushyResponse(500, "dict", "absent", Notification("dict", 1, "ring1")) }
        \cup PushyFailures

\* if response.status == 200: result = await response.json();
\* if result.get("success"): return True; ... return False;
\* except Exception: return False
authenticate_unless_exception(r) == r.kind = "response"

authenticate(r) ==
    r.kind = "response" /\ r.status = 200 /\ r.t = "dict" /\ r.success = "true"

subscribe(r) ==
    r.kind = "response" /\ r.status = 200 /\ r.t = "dict" /\ r.success = "true"

unsubscribe(r) ==
    r.kind = "response" /\ r.status = 200 /\ r.t = "dict" /\ r.success = "true"

PushyAnswer(endpoint, r) == [endpoint |-> endpoint, r |-> r]

\* connect returned False: async_setup_pushy returns False.
ConnectFalse(p) == SetupFalse([p EXCEPT !.connect = "False"], NONE)

\* if not await self.authenticate(): return False; then subscribe(topics)
AuthenticateResponse ==
    /\ push.pc = "authenticate"
    /\ \E r \in PushyOutcomes :
         LET p == [push EXCEPT !.answers = Append(@, PushyAnswer("auth", r))]
         IN push' = IF authenticate(r)
                    THEN [p EXCEPT !.authenticated = "True", !.pc = "subscribe",
                                   !.sent = Append(@, PushySent("subscribe", p.topics_arg))]
                    ELSE ConnectFalse([p EXCEPT !.authenticated = "False"])
    /\ UNCHANGED <<data, last_call_ids, bus, pc, loc, q, now, door, http, flow, sensors, refreshes>>

\* if not await self.subscribe(topics): return False
\* self._connected = True; self._topics = topics; await self._start_listener()
\* return True; then self._push_connected = True; return True
SubscribeResponse ==
    /\ push.pc = "subscribe"
    /\ \E r \in PushyOutcomes :
         LET p == [push EXCEPT !.answers = Append(@, PushyAnswer("subscribe", r))]
         IN push' = IF subscribe(r)
                    THEN [p EXCEPT !.subscribed = "True", !.connected = TRUE,
                                   !.topics = p.topics_arg, !.listen_task = "created",
                                   !.connect = "True", !.push_connected = TRUE,
                                   !.setup = "True", !.pc = "setup_done"]
                    ELSE ConnectFalse([p EXCEPT !.subscribed = "False"])
    /\ UNCHANGED <<data, last_call_ids, bus, pc, loc, q, now, door, http, flow, sensors, refreshes>>

\* bool(result.get("notification"))
truthy(n) == n.t \in { "dict", "str" } /\ n.size > 0

\* _handle_push_notification is a plain function: it requests a refresh and
\* returns None, and await None raises TypeError.
handle_push_notification == NONE

await_raises(value) == IF value = NONE THEN "TypeError" ELSE NONE

\* One pass of the loop body on the outcome o of the listen request: the
\* notifications the callback was called with, the exception the pass ended
\* in, and the seconds slept before the next pass.
listen_round(o) ==
    IF o.kind = "TimeoutError" THEN [callback |-> <<>>, raised |-> o.kind, slept |-> 0]
    ELSE IF o.kind # "response" THEN [callback |-> <<>>, raised |-> o.kind, slept |-> 10]
    ELSE IF o.status # 200 THEN [callback |-> <<>>, raised |-> NONE, slept |-> 5]
    ELSE IF o.t = "garbage"
         THEN [callback |-> <<>>, raised |-> "JSONDecodeError", slept |-> 10]
    ELSE IF o.t # "dict"
         THEN [callback |-> <<>>, raised |-> "AttributeError", slept |-> 10]
    ELSE IF ~truthy(o.notification) THEN [callback |-> <<>>, raised |-> NONE, slept |-> 0]
    ELSE IF o.notification.t # "dict"
         THEN [callback |-> <<>>, raised |-> "AttributeError", slept |-> 10]
    ELSE IF await_raises(handle_push_notification) # NONE
         THEN [callback |-> <<o.notification>>,
               raised |-> await_raises(handle_push_notification), slept |-> 10]
         ELSE [callback |-> <<o.notification>>, raised |-> NONE, slept |-> 0]

\* while self._connected: the next listen request, or the end of the loop.
NextIteration_until_error(p) ==
    IF p.connected /\ (p.rounds = <<>> \/ p.rounds[Len(p.rounds)].slept = 0)
    THEN [p EXCEPT !.listen_task = "listen", !.sleep = 0,
                   !.sent = Append(@, PushySent("listen", <<>>))]
    ELSE [p EXCEPT !.listen_task = "done", !.sleep = 0]

NextIteration(p) ==
    IF p.connected
    THEN [p EXCEPT !.listen_task = "listen", !.sleep = 0,
                   !.sent = Append(@, PushySent("listen", <<>>))]
    ELSE [p EXCEPT !.listen_task = "done", !.sleep = 0]

\* The task created by _start_listener runs up to its first await.
ListenStart ==
    /\ push.listen_task = "created"
    /\ ~push.cancelled
    /\ push' = NextIteration(push)
    /\ UNCHANGED <<data, last_call_ids, bus, pc, loc, q, now, door, http, flow, sensors, refreshes>>

\* The listen request ends and the loop body runs up to its next await: the
\* back-off sleep or the next listen request.
ListenResponse ==
    /\ push.listen_task = "listen"
    /\ ~push.cancelled
    /\ Len(push.rounds) < MaxListens
    /\ \E o \in ListenOutcomes :
         LET r == listen_round(o)
             p == [push EXCEPT
                     !.rounds = Append(@, [outcome |-> o, callback |-> r.callback,
                                           raised |-> r.raised, slept |-> r.slept]),
                     !.callbacks = @ \o r.callback,
                     !.refresh_requests = @ + Len(r.callback)]
         IN push' = IF r.slept > 0
                    THEN [p EXCEPT !.listen_task = "sleep", !.sleep = r.slept]
                    ELSE NextIteration(p)
    /\ UNCHANGED <<data, last_call_ids, bus, pc, loc, q, now, door, http, flow, sensors, refreshes>>

\* await asyncio.sleep(...) is over.
SleepEnds ==
    /\ push.listen_task = "sleep"
    /\ ~push.cancelled
    /\ push' = NextIteration(push)
    /\ UNCHANGED <<data, last_call_ids, bus, pc, loc, q, now, door, http, flow, sensors, refreshes>>

\* The cancelled task is resumed with CancelledError, which no except
\* clause of the loop catches.
ListenCancelled ==
    /\ push.cancelled
    /\ push.listen_task \in { "created", "listen", "sleep" }
    /\ push' = [push EXCEPT !.listen_task = "done", !.sleep = 0]
    /\ UNCHANGED <<data, last_call_ids, bus, pc, loc, q, now, door, http, flow, sensors, refreshes>>

\* await self._listen_task returns once the task is done.
awaited_at_once(p) == TRUE

awaited(p) == p.listen_task = "done"

\* if self._topics: await self.unsubscribe(self._topics)
AfterAwait(p) ==
    IF p.topics # <<>>
    THEN [p EXCEPT !.disconnect = "unsubscribe",
                   !.sent = Append(@, PushySent("unsubscribe", p.topics))]
    ELSE [p EXCEPT !.disconnect = "returned"]

\* async_shutdown on stop or unload: disconnect() up to its first await.
Disconnect ==
    /\ push.entry = "True"
    /\ push.pushy_client
    /\ push.disconnect = "idle"
    /\ LET p == [push EXCEPT !.connected = FALSE] IN
       push' = IF p.listen_task # NONE
               THEN [p EXCEPT !.cancelled = TRUE, !.disconnect = "await_task"]
               ELSE AfterAwait(p)
    /\ UNCHANGED <<data, last_call_ids, bus, pc, loc, q, now, door, http, flow, sensors, refreshes>>

DisconnectAwaited ==
    /\ push.disconnect = "await_task"
    /\ awaited(push)
    /\ push' = AfterAwait(push)
    /\ UNCHANGED <<data, last_call_ids, bus, pc, loc, q, now, door, http, flow, sensors, refreshes>>

UnsubscribeResponse ==
    /\ push.disconnect = "unsubscribe"
    /\ \E r \in PushyOutcomes :
         push' = [push EXCEPT !.answers = Append(@, PushyAnswer("unsubscribe", r)),
                              !.disconnect = "returned"]
    /\ UNCHANGED <<data, last_call_ids, bus, pc, loc, q, now, door, http, flow, sensors, refreshes>>

\* A coordinator just constructed, its first refresh done, push enabled or not.
PushInit ==
    /\ data = <<>>
    /\ last_call_ids = {}
    /\ bus = <<>>
    /\ pc = [t \in Tasks |-> "idle"]
    /\ loc = [t \in Tasks |-> IdleLoc]
    /\ q = NoQuery
    /\ now = 0
    /\ door = IdleDoor(NONE)
    /\ http = NoRequest
    /\ push \in { NewPush(e) : e \in BOOLEAN }
    /\ flow = NoFlow
    /\ sensors = NoSensors
    /\ refreshes = 0

PushNext ==
    \/ SetupPushy
    \/ CredentialsResponse
    \/ LocationsResponse
    \/ AuthenticateResponse
    \/ SubscribeResponse
    \/ SetupEntryReturns
    \/ TimerFires
    \/ ListenStart
    \/ ListenResponse
    \/ SleepEnds
    \/ ListenCancelled
    \/ Disconnect
    \/ DisconnectAwaited
    \/ UnsubscribeResponse

PushSpec == PushInit /\ [][PushNext]_vars

\* The event loop runs a task that is ready: the listener task is started
\* once created, and resumed once its back-off sleep is over.
PushFairSpec ==
    PushInit /\ [][PushNext]_vars /\ WF_vars(ListenStart) /\ WF_vars(SleepEnds)

(***************************************************************************)
(* The integration as a whole: refreshes, helper queries, unlock and press *)
(* actions, push set-up and shutdown over one coordinator                  *)
(***************************************************************************)

\* One part of the integration acts at a time, from whatever the refreshes
\* before it left in the coordinator: the entities (and so the unlock and
\* press actions) exist once the first refresh has stored its data.
RefreshIdle == \A t \in Tasks : pc[t] = "idle"

QueriesIdle == q = NoQuery /\ now = 0

DoorIdle == door.pc = "idle"

PushIdle == push \in { NewPush(e) : e \in BOOLEAN }

LifeNext ==
    \/ QueriesIdle /\ DoorIdle /\ PushIdle /\ Next
    \/ RefreshIdle /\ DoorIdle /\ PushIdle /\ QueryNext
    \/ RefreshIdle /\ QueriesIdle /\ PushIdle /\ data # <<>> /\ DoorNext
    \/ RefreshIdle /\ QueriesIdle /\ DoorIdle /\ PushNext

LifeSpec == PushInit /\ [][LifeNext]_vars

(***************************************************************************)
(* Properties of the refresh coordinator                                   *)
(***************************************************************************)

CallIds == { r.call_id : r \in CallRecs }

RingsFor(id) == { i \in DOMAIN bus : bus[i].event_type = EVENT_DOORBELL_PRESSED /\ bus[i].call_id = id }

Occurrences(calls, id) == Cardinality({ i \in DOMAIN calls : calls[i].call_id = id })

\* C1: over any sequence of refreshes of one coordinator, the doorbell-ring
\* event of a call id is fired at most once, however often a Missed record
\* with that id is delivered, twice within one list included.
C1_RingAtMostOncePerCallId == \A id \in CallIds : Cardinality(RingsFor(id)) <= 1

\* C1 witness: Missed call "a" was delivered by an earlier refresh (it is in
\* the cached snapshot) and twice more in the list just scanned, and its
\* event is on the bus once.
C1_Witness ==
    \E t \in Tasks :
        /\ pc[t] = "get_account"
        /\ Occurrences(loc[t].call_records, "a") = 2
        /\ data # <<>>
        /\ Occurrences(data[1].call_records, "a") >= 1
        /\ Cardinality(RingsFor("a")) = 1

\* C2: a fetch that raises an API error makes the refresh fail as
\* UpdateFailed; no step but the return of a refresh changes the cached
\* snapshot, and that step stores exactly the three fetched parts.
C2_FailureKeepsSnapshotSuccessReplacesIt ==
    [][ /\ \A t \in Tasks :
             /\ (pc'[t] = "raise" /\ loc'[t].fetch_exc = "MultitekAPIError")
                    => loc'[t].raised = "UpdateFailed"
             /\ pc[t] = "raise" => data' = data
             /\ (pc[t] = "return" /\ pc'[t] = "idle")
                    => data' = <<Snapshot(loc[t].locations, loc[t].call_records,
                                          loc[t].account)>>
        /\ data' # data => \E t \in Tasks : pc[t] = "return" /\ pc'[t] = "idle"
      ]_vars

\* C2 witness: with a snapshot cached, a refresh that fetched other call
\* records failed with an API error on the account fetch, and the cache is
\* still the old snapshot.
C2_Witness ==
    \E t \in Tasks :
        /\ pc[t] = "raise"
        /\ loc[t].fetch_exc = "MultitekAPIError"
        /\ loc[t].raised = "UpdateFailed"
        /\ data # <<>>
        /\ loc[t].call_records # data[1].call_records
        /\ Len(loc[t].locations) # Len(data[1].locations)

\* C3: a refresh that is reported as failed has emitted no doorbell-ring
\* event and has left the seen-call-ids set unchanged.
C3_FailedRefreshEmitsNothing ==
    \A t \in Tasks :
        (pc[t] = "raise" /\ loc[t].raised = "UpdateFailed")
            => (loc[t].fired = 0 /\ loc[t].added = {})

\* The refreshes in flight.
InFlight == { t \in Tasks : pc[t] # "idle" }

\* C21 as a state predicate: at most one refresh is in flight. It holds
\* under Spec by the guard of RefreshStart and fails under OverlapSpec.
OneRefreshInFlight == Cardinality(InFlight) <= 1

\* The ids of the Missed records of a list.
MissedIds(call_records) ==
    { call_records[i].call_id :
        i \in { j \in DOMAIN call_records :
                  call_records[j].call_state = CALL_STATE_MISSED } }

\* The first record with the given id in a list.
FirstWithId(call_records, id) ==
    call_records[CHOOSE i \in DOMAIN call_records :
                    /\ call_records[i].call_id = id
                    /\ \A j \in 1..(i - 1) : call_records[j].call_id # id]

\* C22: the seen set starts empty and only grows, and only the step of a
\* refresh that scans the fetched call records changes it: no helper query,
\* no step of the push set-up or of the shutdown, no unlock or press action.
C22_SeenSetAppendOnlyOnRefreshPath ==
    /\ [](data = <<>> /\ bus = <<>> => last_call_ids = {})
    /\ [][ /\ last_call_ids \subseteq last_call_ids'
           /\ last_call_ids' # last_call_ids
                => /\ \E t \in Tasks : pc[t] = "get_call_records" /\ pc'[t] = "get_account"
                   /\ <<q, now, door, http, push, flow, sensors>>'
                         = <<q, now, door, http, push, flow, sensors>>
           /\ <<q, now, door, http, push, flow, sensors>>'
                 # <<q, now, door, http, push, flow, sensors>>
                => last_call_ids' = last_call_ids ]_vars

\* C22 witness: two refreshes put both Missed calls in the seen set, then the
\* lock's unlock action ran to its end, and the set is as the refreshes left it.
C22_Witness ==
    /\ last_call_ids = { "a", "c" }
    /\ Len(bus) = 2
    /\ door.pc = "done"
    /\ door.entity = "lock"
    /\ door.requests # <<>>

\* C24: the scan of the fetched call records fires, for every Missed record
\* whose id was not in the seen set, exactly one ring event with that
\* record's call id, from, to, location id, date and snapshot path, and
\* puts the id in the seen set; it fires nothing else and adds no other id.
C24_NewMissedCallRingsOnce ==
    [][ \A t \in Tasks :
          (pc[t] = "get_call_records" /\ pc'[t] = "get_account")
            => LET recs == loc'[t].call_records
                   fired == SubSeq(bus', Len(bus) + 1, Len(bus'))
                   fresh == MissedIds(recs) \ last_call_ids
               IN /\ Len(bus') >= Len(bus) /\ SubSeq(bus', 1, Len(bus)) = bus
                  /\ \A id \in fresh :
                       /\ Cardinality({ j \in DOMAIN fired : fired[j].call_id = id }) = 1
                       /\ \E j \in DOMAIN fired :
                            LET r == FirstWithId(recs, id) IN
                            fired[j] = [event_type |-> EVENT_DOORBELL_PRESSED,
                                        call_id |-> r.call_id, call_from |-> r.call_from,
                                        call_to |-> r.call_to,
                                        location_id |-> r.location_id,
                                        timestamp |-> r.date, snapshot_path |-> r.path]
                  /\ \A j \in DOMAIN fired : fired[j].call_id \in fresh
                  /\ last_call_ids' = last_call_ids \cup fresh ]_vars

\* C24 witness: a refresh that fetched an Outgoing call and then the Missed
\* call "a" has returned its data; one event, of "a" with its snapshot, is on
\* the bus, and "a" alone is in the seen set.
C24_Witness ==
    \E t \in Tasks :
        /\ pc[t] = "return"
        /\ Len(loc[t].call_records) = 2
        /\ loc[t].call_records[1].call_id = "b"
        /\ loc[t].call_records[2].call_id = "a"
        /\ Len(bus) = 1
        /\ bus[1].call_id = "a"
        /\ bus[1].snapshot_path = "snap_a.jpg"
        /\ bus[1].timestamp = D1000
        /\ last_call_ids = { "a" }

\* C28: also when a timer refresh and an out-of-band refresh overlap at
\* their awaits and both fetch the same Missed call, that call's ring event
\* is fired once: an id has one event on the bus when it is in the seen set
\* and none when it is not.
C28_OverlappingRefreshesRingOnce ==
    \A id \in CallIds :
        Cardinality(RingsFor(id)) = (IF id \in last_call_ids THEN 1 ELSE 0)

\* C28 witness: both refreshes are in flight past the scan, both fetched the
\* Missed call "a", and its event is on the bus once.
C28_Witness ==
    /\ pc["timer"] = "get_account"
    /\ pc["oob"] = "get_account"
    /\ Occurrences(loc["timer"].call_records, "a") >= 1
    /\ Occurrences(loc["oob"].call_records, "a") >= 1
    /\ loc["timer"].fired + loc["oob"].fired = 1
    /\ Cardinality(RingsFor("a")) = 1

(***************************************************************************)
(* Properties of the helper queries                                        *)
(***************************************************************************)

\* A record's date as the specification reads it: unparsable counts as 0.
DateOrZero(d) == IF int_raises(d) THEN 0 ELSE int(d)

InWindow(call, call_to, half_minutes, now_ms) ==
    /\ 2 * DateOrZero(call.date) >= 2 * now_ms - half_minutes * 60000
    /\ (call_to = NONE \/ call.call_to = call_to)

RecentExpected(call_to, half_minutes, now_ms) ==
    IF data = <<>> THEN <<>>
    ELSE SelectSeq(data[1].call_records,
                   LAMBDA c : InWindow(c, call_to, half_minutes, now_ms))

\* C10: get_recent_calls(call_to, minutes=m) returns exactly the cached call
\* records dated >= now_ms - m*60000, restricted to those whose call_to is
\* the argument when one is given, in cache order; the empty list when the
\* cache is empty or absent.
C10_RecentCallsExact ==
    q.op = "get_recent_calls"
        => (q.raised = NONE /\ q.result = RecentExpected(q.call_to, q.half_minutes, q.at))

\* The same, for the caches in which every date parses: there the call never
\* raises and returns exactly the records in the window.
RecentCallsExactOnParsableDates ==
    (/\ q.op = "get_recent_calls"
     /\ data # <<>> => \A i \in DOMAIN data[1].call_records :
                          ~int_raises(data[1].call_records[i].date))
        => (q.raised = NONE /\ q.result = RecentExpected(q.call_to, q.half_minutes, q.at))

\* The record dated 1000 is left out 61000 ms later for minutes=1 and kept
\* 60000 ms later.
RecentCallsWindowEdge ==
    (q.op = "get_recent_calls" /\ q.raised = NONE /\ q.half_minutes = 2 /\ q.call_to = NONE)
        => /\ q.at = 62000 =>
                \A i \in DOMAIN q.result : q.result[i].date # D1000
           /\ (q.at = 61000 /\ data # <<>>) =>
                \A i \in DOMAIN data[1].call_records :
                    data[1].call_records[i].date = D1000
                        => \E j \in DOMAIN q.result : q.result[j].call_id = "a"

\* The cache has a record whose date int() cannot read.
CacheHasUnparsableDate ==
    data # <<>> /\ \E i \in DOMAIN data[1].call_records :
                     int_raises(data[1].call_records[i].date)

\* Local midnight of the day of now_ms.
MidnightOf(now_ms) == now_ms - (now_ms % DayMs)

TodayExpected(now_ms) ==
    IF data = <<>> THEN 0
    ELSE Cardinality({ i \in DOMAIN data[1].call_records :
                         DateOrZero(data[1].call_records[i].date) >= MidnightOf(now_ms) })

\* C11: get_today_call_count returns exactly the number of cached call
\* records dated at or after local midnight of the current day, whatever
\* their call state, and 0 when nothing is cached.
C11_TodayCountExact ==
    q.op = "get_today_call_count" => (q.raised = NONE /\ q.count = TodayExpected(q.at))

\* The same, for the caches in which every date parses.
TodayCountExactOnParsableDates ==
    (q.op = "get_today_call_count" /\ ~CacheHasUnparsableDate)
        => (q.raised = NONE /\ q.count = TodayExpected(q.at))

\* On the second day the call dated at its midnight is counted, Outgoing
\* though it is, and the calls of the first day are not.
TodayCountMidnightEdge ==
    (q.op = "get_today_call_count" /\ q.raised = NONE /\ q.at = 86401000 /\ data # <<>>)
        => q.count = Cardinality({ i \in DOMAIN data[1].call_records :
                                     data[1].call_records[i].call_id = "d" })

\* The call a doorbell sensor is to show: of its Missed calls the one with
\* the greatest date, an unparsable date counting as 0, the first of them in
\* cache order.
LastExpected(call_to) ==
    IF data = <<>> THEN <<>>
    ELSE LET calls == SelectSeq(data[1].call_records,
                                LAMBDA c : /\ c.call_state = CALL_STATE_MISSED
                                           /\ IF call_to = NONE THEN c.location_id = "L1"
                                              ELSE c.call_to = call_to)
         IN IF calls = <<>> THEN <<>>
            ELSE LET i == CHOOSE k \in DOMAIN calls :
                              /\ \A j \in DOMAIN calls :
                                   DateOrZero(calls[j].date) <= DateOrZero(calls[k].date)
                              /\ \A j \in 1..(k - 1) :
                                   DateOrZero(calls[j].date) < DateOrZero(calls[k].date)
                 IN <<calls[i]>>

\* C12: no helper query raises on a record whose date is not an integer:
\* get_recent_calls, get_today_call_count and _get_last_call give the result
\* they would give were that date 0.
C12_DateCoercionNeverThrows ==
    q.op # NONE
        => /\ q.raised = NONE
           /\ q.op = "get_recent_calls"
                => q.result = RecentExpected(q.call_to, q.half_minutes, q.at)
           /\ q.op = "get_today_call_count" => q.count = TodayExpected(q.at)
           /\ q.op = "get_last_call" => q.result = LastExpected(q.call_to)

\* What the queries do: they raise ValueError, and only on a cache with an
\* unparsable date; when they do not raise, the result is as above.
DateCoercionThrowsOnUnparsable ==
    q.op # NONE
        => /\ q.raised # NONE => (q.raised = "ValueError" /\ CacheHasUnparsableDate)
           /\ (q.raised = NONE /\ q.op = "get_last_call")
                => q.result = LastExpected(q.call_to)
           /\ (q.op \in { "get_recent_calls", "get_today_call_count" }
                   /\ CacheHasUnparsableDate)
                => q.raised = "ValueError"

(***************************************************************************)
(* Properties of the HTTP wrapper                                          *)
(***************************************************************************)

\* C13: every outcome of a vendor request is one of three: status 200 gives
\* the body, status 401 the authentication error, any other status and
\* every network-level failure, a timeout included, the generic API error;
\* nothing else leaves _request.
C13_RequestOutcomeIsBodyAuthOrApiError ==
    http.endpoint # NONE
        => /\ http.outcome.exc \in { NONE, "MultitekAuthError", "MultitekAPIError" }
           /\ http.outcome.exc = NONE
                <=> (http.transport.kind = "response" /\ http.transport.status = 200)
           /\ http.outcome.exc = "MultitekAuthError"
                <=> (http.transport.kind = "response" /\ http.transport.status = 401)

\* What _request does: the three outcomes as above but for two cases, in
\* which another exception leaves it: the total timeout's
\* asyncio.TimeoutError and the JSONDecodeError of a 200 response declared as
\* JSON whose body is none.
RequestOutcomeButTimeoutAndBadJson ==
    http.endpoint # NONE
        => LET t == http.transport
               bad_json == t.kind = "response" /\ t.status = 200 /\ t.json
                               /\ t.body = "<html>"
           IN /\ t.kind = "TimeoutError" => http.outcome.exc = "TimeoutError"
              /\ bad_json => http.outcome.exc = "JSONDecodeError"
              /\ (t.kind # "TimeoutError" /\ ~bad_json)
                   => /\ http.outcome.exc \in { NONE, "MultitekAuthError", "MultitekAPIError" }
                      /\ http.outcome.exc = NONE <=> (t.kind = "response" /\ t.status = 200)
                      /\ http.outcome.exc = "MultitekAuthError"
                           <=> (t.kind = "response" /\ t.status = 401)
                      /\ http.outcome.exc = NONE => http.outcome.body.text = t.body

(***************************************************************************)
(* Properties of the login                                                 *)
(***************************************************************************)

\* The login's request failed, and not by a 401 of the vendor: a network
\* error, a time-out, or an answer with a status other than 200 and 401.
NonAuthFailure(t) ==
    \/ t.kind \in ClientErrors \cup { "TimeoutError" }
    \/ t.kind = "response" /\ t.status \notin { 200, 401 }

\* C23 as claimed: a failure of the login that is no authentication failure
\* neither makes the set-up of the entry fail as a failed authentication
\* nor shows the config flow's form with invalid_auth.
C23_OnlyAuthFailureFailsSetup ==
    (flow.pc = "done" /\ NonAuthFailure(flow.transport))
        => /\ flow.error \notin { "Failed to authenticate", "invalid_auth" }
           /\ flow.caller = "async_setup_entry" => flow.result # "False"

\* What the code does: login turns every failure into False, so the set-up
\* returns False and the config flow shows invalid_auth after every failed
\* login; only validate_input's own get_account tells the failures apart.
EveryLoginFailureIsAuthFailure ==
    /\ flow.login = "False"
         => flow.error = (IF flow.caller = "async_setup_entry"
                          THEN "Failed to authenticate" ELSE "invalid_auth")
    /\ flow.login = "True"
         <=> (flow.transport = Response(200, TRUE, AccountJson))
    /\ (flow.pc = "done" /\ NonAuthFailure(flow.account_transport))
         => flow.error \in { "cannot_connect", "unknown" }

(***************************************************************************)
(* Properties of the open_door service                                     *)
(***************************************************************************)

\* The location the service call is about: the first one when no id is
\* given, the listed one with the id otherwise; <<>> when there is none.
TargetLocation ==
    LET locations == data[1].locations IN
    IF door.arg \in { NONE, "" }
    THEN IF locations = <<>> THEN <<>> ELSE <<locations[1]>>
    ELSE IF \E i \in DOMAIN locations : locations[i].location_id = door.arg
         THEN <<locations[CHOOSE i \in DOMAIN locations :
                             locations[i].location_id = door.arg]>>
         ELSE <<>>

\* No device resolves: no locations, an unknown location id, a location
\* with an empty device list, or a first device without sip.
NoDeviceResolves ==
    \/ TargetLocation = <<>>
    \/ TargetLocation[1].location_devices = <<>>
    \/ TargetLocation[1].location_devices[1].sip \in { NONE, "" }

\* C30 as claimed: the open_door service lets no exception escape, sends
\* addCall only for a resolved, non-empty device target, and returns
\* without any request when no device resolves.
C30_ServiceResolvesOrReturns ==
    door.entity = "service"
        => /\ door.escaped = NONE
           /\ \A i \in DOMAIN door.requests :
                door.requests[i].endpoint = "addCall"
                    => door.requests[i].call_to \notin { NONE, "" }
           /\ NoDeviceResolves => (door.pc = "done" /\ door.requests = <<>>)

\* What the code does: a request is sent only for a resolved target and
\* none when no device resolves, but a call without location id whose first
\* location has an empty device list ends in an IndexError that leaves the
\* handler; no other call raises.
ServiceRaisesOnEmptyDeviceList ==
    door.entity = "service"
        => /\ \A i \in DOMAIN door.requests :
                door.requests[i].endpoint = "addCall"
                    => /\ door.requests[i].call_to \notin { NONE, "" }
                       /\ door.requests[i].call_to
                            = TargetLocation[1].location_devices[1].sip
           /\ NoDeviceResolves => (door.pc = "done" /\ door.requests = <<>>)
           /\ door.escaped # NONE
                <=> /\ door.arg \in { NONE, "" }
                    /\ data[1].locations # <<>>
                    /\ data[1].locations[1].location_devices = <<>>
           /\ door.escaped \in { NONE, "IndexError" }

(***************************************************************************)
(* Properties of the binary sensors                                        *)
(***************************************************************************)

\* C29 as claimed: the unique ids of the doorbell sensors created from a
\* snapshot are pairwise distinct, also when a location has two rooms.
C29_UniqueIdsPairwiseDistinct ==
    \A i, j \in DOMAIN sensors.entities :
        sensors.entities[i].unique_id = sensors.entities[j].unique_id => i = j

\* What the code does: the ids are distinct exactly when no location has
\* more than one room; the sensors of two rooms of a location share the id
\* that ends in _doorbell_apartment, whatever their room numbers.
UniqueIdsDistinctUpToOneRoom ==
    sensors.created
        => /\ C29_UniqueIdsPairwiseDistinct
                <=> \A k \in DOMAIN data[1].locations :
                       Len(data[1].locations[k].location_rooms) <= 1
           /\ \A i, j \in DOMAIN sensors.entities :
                (/\ sensors.entities[i].sensor_type = "daire"
                 /\ sensors.entities[j].sensor_type = "daire"
                 /\ sensors.entities[i].location_id = sensors.entities[j].location_id)
                    => sensors.entities[i].unique_id = sensors.entities[j].unique_id
           /\ Len(sensors.entities)
                = Len(data[1].locations)
                  + (IF Len(data[1].locations) >= 1
                     THEN Len(data[1].locations[1].location_rooms) ELSE 0)
                  + (IF Len(data[1].locations) >= 2
                     THEN Len(data[1].locations[2].location_rooms) ELSE 0)
                  + (IF Len(data[1].locations) >= 3
                     THEN Len(data[1].locations[3].location_rooms) ELSE 0)

(***************************************************************************)
(* Properties of the door operations and of the unlock / press action      *)
(***************************************************************************)

\* The success marker: the string "1" or a number equal to 1 (for Python a
\* JSON true is the number 1 too).
SuccessMarkers == { Value("str", "1", 0), Value("int", "", 1), Value("bool", "", 1) }

\* The bodies endpoint e answered with in this action.
Answers(e) ==
    { door.responses[i].r.body :
        i \in { j \in DOMAIN door.responses :
                  door.responses[j].endpoint = e /\ door.responses[j].r.exc = NONE } }

Sent(e) == { i \in DOMAIN door.requests : door.requests[i].endpoint = e }

OpenDoorAttempted == Sent("getAccount") \cup Sent("addCall") # {}

\* C4: open_door returns success only if addCall and setCallDuration both
\* answered with the success marker; addCall "1" followed by
\* setCallDuration "0" is a failure.
C4_OpenDoorNeedsBothSteps ==
    /\ door.open_door = "True"
         => /\ Answers("addCall") # {} /\ Answers("addCall") \subseteq SuccessMarkers
            /\ Answers("setCallDuration") # {}
            /\ Answers("setCallDuration") \subseteq SuccessMarkers
    /\ (Answers("addCall") = { Value("str", "1", 0) }
            /\ Answers("setCallDuration") = { Value("str", "0", 0) })
         => door.open_door = "False"

\* C4 witness: addCall answered "1", setCallDuration answered "0", and
\* open_door returned False.
C4_Witness ==
    /\ Answers("addCall") = { Value("str", "1", 0) }
    /\ Answers("setCallDuration") = { Value("str", "0", 0) }
    /\ door.open_door = "False"

\* C5: whenever the vendor answers a door command with a value other than
\* the success marker, open_door_with_call, respectively open_door, returns
\* False: it neither succeeds nor raises.
C5_NonMarkerIsFailureNotRaise ==
    /\ Answers("controlCurrentCall") \ SuccessMarkers # {} => door.with_call = "False"
    /\ Answers("addCall") \ SuccessMarkers # {} => door.open_door = "False"
    /\ Answers("setCallDuration") \ SuccessMarkers # {} => door.open_door = "False"

\* C5 witness: controlCurrentCall answered null and open_door_with_call
\* returned False, then setCallDuration answered "" and open_door returned
\* False.
C5_Witness ==
    /\ Answers("controlCurrentCall") = { Value("null", "", 0) }
    /\ door.with_call = "False"
    /\ Answers("setCallDuration") = { Value("str", "", 0) }
    /\ door.open_door = "False"

\* The order of the door operations that the lock and the button share:
\* open_door_with_call only for a call that was found, with its id, at most
\* once; open_door only when no call was found or open_door_with_call
\* returned False, never after it returned True.
FallbackOrder ==
    /\ \A i \in Sent("controlCurrentCall") :
         door.call.found /\ door.requests[i].call_id = door.call.call_id
    /\ Cardinality(Sent("controlCurrentCall")) <= 1
    /\ OpenDoorAttempted => (~door.call.found \/ door.with_call = "False")
    /\ door.with_call = "True" => ~OpenDoorAttempted

\* C6 as claimed: the lock and the button both first call ask_current_call
\* and take the call from its answer before the door operations, in the
\* order above.
C6_BothAskCurrentCallFirst ==
    door.pc # "idle"
        => /\ door.asked
           /\ door.call.found => door.call = door.active_call
           /\ FallbackOrder

\* The cached calls the lock may use: those of its location dated after
\* now - 5 minutes.
LockCandidates ==
    { i \in DOMAIN data[1].call_records :
        /\ data[1].call_records[i].location_id = EntityLocation.location_id
        /\ ~int_raises(data[1].call_records[i].date)
        /\ int(data[1].call_records[i].date) > now - 300000 }

\* C6 amended: the button first calls ask_current_call and uses the active
\* call it reports; the lock does not call it and uses the first cached call
\* record of its location dated within the last five minutes; both then
\* keep the order above.
C6_ButtonAsksLockUsesRecentCall ==
    door.pc # "idle"
        => /\ door.entity = "button"
                => (door.asked /\ (door.call.found => door.call = door.active_call))
           /\ door.entity = "lock"
                => /\ ~door.asked
                   /\ door.call.found
                        => /\ LockCandidates # {}
                           /\ \E i \in LockCandidates :
                                /\ \A j \in LockCandidates : i <= j
                                /\ door.call.call_id = data[1].call_records[i].call_id
           /\ FallbackOrder

\* C6 witness: the lock tried open_door_with_call with the recent call's id,
\* it returned False, and open_door was attempted after it.
C6_Witness ==
    /\ door.entity = "lock"
    /\ Len(data[1].call_records) = 2
    /\ door.call.found
    /\ door.call.call_id = data[1].call_records[2].call_id
    /\ door.call.call_id # data[1].call_records[1].call_id
    /\ door.with_call = "False"
    /\ Sent("addCall") # {}

\* C7: an action in which a door-open method succeeded has fired exactly
\* one door-opened event, naming that method (and the call id for the
\* active-call method), and has requested one coordinator refresh, for the
\* lock and for the button.
C7_SuccessFiresEventAndRefreshes ==
    (door.pc = "done" /\ (door.with_call = "True" \/ door.open_door = "True"))
        => /\ Len(bus) = 1
           /\ bus[1].event_type = EVENT_DOOR_OPENED
           /\ door.with_call = "True"
                => (bus[1].method = "controlCurrentCall" /\ bus[1].call_id = door.call.call_id)
           /\ door.open_door = "True" => bus[1].method = "addCall"
           /\ door.refreshes = 1

\* The event half of C7, which holds for both entities.
SuccessFiresOneEvent ==
    (door.pc = "done" /\ (door.with_call = "True" \/ door.open_door = "True"))
        => /\ Len(bus) = 1
           /\ bus[1].event_type = EVENT_DOOR_OPENED
           /\ door.with_call = "True"
                => (bus[1].method = "controlCurrentCall" /\ bus[1].call_id = door.call.call_id)
           /\ door.open_door = "True" => bus[1].method = "addCall"
           /\ door.entity = "lock" => door.refreshes = 1

\* C8: an action in which no door-open method succeeded has fired no
\* door-opened event, and no exception leaves the handler.
C8_FailureFiresNothingAndIsCaught ==
    /\ door.escaped = NONE
    /\ (door.pc = "done" /\ door.with_call # "True" /\ door.open_door # "True")
         => bus = <<>>

\* C8 witness: open_door_with_call returned False, open_door then raised an
\* API error, the handler caught it and the bus is empty.
C8_Witness ==
    /\ door.pc = "done"
    /\ door.with_call = "False"
    /\ door.open_door = "MultitekAPIError"
    /\ door.caught = "MultitekAPIError"
    /\ door.escaped = NONE
    /\ bus = <<>>

\* What ask_current_call is to return for the vendor's answer r.
ActiveCallOf(r) ==
    IF r.exc = NONE /\ r.body.kind = "dict" /\ r.body.call_id \notin { NONE, "", "-1" }
    THEN [found |-> TRUE, call_id |-> r.body.call_id]
    ELSE NoCall

\* C9: ask_current_call never raises and returns the call info exactly when
\* the vendor answers with an object whose call_id is present, not empty
\* and not "-1"; none otherwise.
C9_AskReturnsTheActiveCall ==
    door.asked => (door.escaped = NONE /\ door.active_call = ActiveCallOf(door.vendor_call))

\* ask_current_call as it stands never raises and never reports a call.
AskNeverReportsACall == door.asked => (door.escaped = NONE /\ ~door.active_call.found)

\* C25 as claimed: whenever open_door_with_call was attempted and did not
\* return True, because it returned False or because it raised, open_door
\* is attempted in the same action.
C25_FallbackAfterAnyFailure ==
    (Sent("controlCurrentCall") # {} /\ door.with_call \notin { NONE, "True" })
        => OpenDoorAttempted

\* What the handlers do: open_door follows a False of open_door_with_call;
\* an exception of open_door_with_call ends the action in the handler's
\* except clause with no further request.
FallbackAfterFalseOnly ==
    /\ door.with_call = "False" => OpenDoorAttempted
    /\ door.with_call \notin { NONE, "True", "False" }
         => /\ ~OpenDoorAttempted
            /\ door.pc = "done"
            /\ door.caught = door.with_call
            /\ Len(door.requests) = 1

\* The answers to addCall that are not the success marker, exceptions included.
AddCallFailed ==
    \E i \in DOMAIN door.responses :
        /\ door.responses[i].endpoint = "addCall"
        /\ \/ door.responses[i].r.exc # NONE
           \/ door.responses[i].r.body \notin SuccessMarkers

\* C26: within one open_door, setCallDuration is sent only after addCall
\* answered with the success marker and carries addCall's generated call id;
\* at most one request of each kind is sent, and none of setCallDuration
\* when addCall did not succeed; addCall has from = the account SIP, cached
\* or fetched by a getAccount sent before it, and to = the target device.
C26_DurationOnlyAfterAddCallSucceeded ==
    /\ \A e \in { "getAccount", "addCall", "setCallDuration" } : Cardinality(Sent(e)) <= 1
    /\ \A i \in Sent("setCallDuration") :
         /\ Answers("addCall") # {}
         /\ Answers("addCall") \subseteq SuccessMarkers
         /\ \E j \in Sent("addCall") :
              /\ j < i
              /\ door.requests[i].call_id = door.requests[j].call_id
              /\ door.requests[j].call_id # NONE
    /\ AddCallFailed => Sent("setCallDuration") = {}
    /\ \A j \in Sent("addCall") :
         /\ door.requests[j].call_from # NONE
         /\ door.requests[j].call_from = door.user_sip
         /\ door.requests[j].call_to = EntityDevice.sip
         /\ \A g \in Sent("getAccount") :
              /\ g < j
              /\ \E k \in DOMAIN door.responses :
                   /\ door.responses[k].endpoint = "getAccount"
                   /\ door.responses[k].r.exc = NONE
                   /\ door.responses[k].r.body.kind = "dict"
                   /\ door.responses[k].r.body.sip = door.requests[j].call_from

\* C26 witness: no SIP was cached, getAccount answered with one, addCall
\* carried it and answered "1", and setCallDuration was sent with the same
\* call id.
C26_Witness ==
    /\ Len(door.requests) = 3
    /\ door.requests[1].endpoint = "getAccount"
    /\ door.requests[2].endpoint = "addCall"
    /\ door.requests[2].call_from = "sip1"
    /\ Answers("addCall") = { Value("str", "1", 0) }
    /\ door.requests[3].endpoint = "setCallDuration"
    /\ door.requests[3].call_id = door.requests[2].call_id

(***************************************************************************)
(* Properties of the push set-up                                           *)
(***************************************************************************)

\* The account was fetched and is an object from which no token can be
\* taken: no phone_list, an empty one, or a first phone without a token.
AccountWithoutToken ==
    /\ push.account.exc = NONE
    /\ push.account.body.kind = "dict"
    /\ \/ ~push.account.body.phone_list.present
       \/ push.account.body.phone_list.phones = <<>>
       \/ push.account.body.phone_list.phones[1].token \in { NONE, "" }

\* C14: when the account has no phone_list, an empty one, or a first phone
\* entry without a token, get_pushy_credentials returns None and raises
\* nothing.
C14_NoTokenGivesNoneWithoutRaising ==
    AccountWithoutToken => (push.credentials = NONE /\ push.cred_raised = NONE)

\* C14 witness: the account came without a phone_list, get_pushy_credentials
\* returned None, and the set-up returned False without creating a client.
C14_Witness ==
    /\ push.account.exc = NONE
    /\ push.account.body.kind = "dict"
    /\ ~push.account.body.phone_list.present
    /\ push.credentials = NONE
    /\ push.cred_raised = NONE
    /\ push.setup = "False"
    /\ push.caught = NONE
    /\ ~push.pushy_client

\* C15: get_pushy_credentials never raises: when the account fetch fails or
\* its body is no object, the result is None.
C15_CredentialsNeverRaise ==
    push.account.exc # "unasked" => (push.cred_raised = NONE
                                      /\ (push.account.exc # NONE => push.credentials = NONE))

\* What holds of it: the exception of the fetch, or the AttributeError on a
\* text body, leaves get_pushy_credentials and is caught by async_setup_pushy,
\* which returns False.
CredentialsFailureCaughtBySetup ==
    push.account.exc # "unasked"
        => /\ push.cred_raised = (IF push.account.exc # NONE THEN push.account.exc
                                  ELSE IF push.account.body.kind # "dict"
                                       THEN "AttributeError" ELSE NONE)
           /\ push.cred_raised # NONE
                => (push.setup = "False" /\ push.caught = push.cred_raised
                    /\ push.escaped = NONE /\ push.credentials = NONE)

\* C16: async_setup_pushy returns True or False and nothing escapes it,
\* whatever fails; the set-up of the entry goes on to complete, and the
\* polling timer stays set and can fire after a False.
C16_PushSetupNeverFatal ==
    /\ push.escaped = NONE
    /\ push.pc = "setup_done" => push.setup \in { "True", "False" }
    /\ push.entry \in { NONE, "True" }
    /\ (push.pc = "setup_done" /\ push.entry = NONE) => ENABLED SetupEntryReturns
    /\ push.setup = "False"
         => /\ push.update_interval = DEFAULT_SCAN_INTERVAL
            /\ Len(push.polls) < MaxPolls => ENABLED TimerFires

\* C16 witness: get_locations timed out in the set-up, async_setup_pushy
\* caught it and returned False, the entry was set up, and the polling timer
\* fired afterwards.
C16_Witness ==
    /\ push.pc = "setup_done"
    /\ push.pushy_client
    /\ push.caught = "TimeoutError"
    /\ push.setup = "False"
    /\ push.entry = "True"
    /\ push.polls = <<"False">>

(***************************************************************************)
(* Properties of the Pushy client                                          *)
(***************************************************************************)

\* A 200 answer whose body is an object with a true "success".
Succeeded(r) == r.kind = "response" /\ r.status = 200 /\ r.t = "dict" /\ r.success = "true"

PushyAnswers(endpoint) ==
    { push.answers[i].r : i \in { j \in DOMAIN push.answers :
                                    push.answers[j].endpoint = endpoint } }

PushySentTo(endpoint) == { i \in DOMAIN push.sent : push.sent[i].endpoint = endpoint }

\* The place of a request in the order of the client's life.
Rank(endpoint) ==
    CASE endpoint = "auth" -> 1 [] endpoint = "subscribe" -> 2
      [] endpoint = "listen" -> 3 [] endpoint = "unsubscribe" -> 4

\* C17: the client goes disconnected, authenticated, subscribed, listening
\* in that order only: the subscribe request is sent only after an
\* authentication that succeeded, the listening loop is started (and listens)
\* only after a subscription that succeeded; when either fails, connect
\* returns False, the client is not connected, remembers no topics and has no
\* listening loop.
C17_ConnectInOrder ==
    /\ \A i, j \in DOMAIN push.sent :
         i < j => Rank(push.sent[i].endpoint) <= Rank(push.sent[j].endpoint)
    /\ Cardinality(PushySentTo("auth")) <= 1
    /\ Cardinality(PushySentTo("subscribe")) <= 1
    /\ PushySentTo("subscribe") # {}
         => (PushyAnswers("auth") # {} /\ \A r \in PushyAnswers("auth") : Succeeded(r))
    /\ (push.listen_task # NONE \/ push.connected \/ PushySentTo("listen") # {})
         => /\ PushyAnswers("subscribe") # {}
            /\ \A r \in PushyAnswers("subscribe") : Succeeded(r)
    /\ PushySentTo("listen") # {} => push.listen_task # NONE
    /\ (\E r \in PushyAnswers("auth") \cup PushyAnswers("subscribe") : ~Succeeded(r))
         => /\ push.connect = "False"
            /\ ~push.connected
            /\ push.topics = <<>>
            /\ push.listen_task = NONE
            /\ PushySentTo("listen") = {}

\* C17 witness: authentication succeeded, the subscription was rejected,
\* and connect returned False with the client disconnected, without topics
\* and without a listening loop.
C17_Witness ==
    /\ Len(push.answers) = 2
    /\ Succeeded(push.answers[1].r)
    /\ push.answers[2].endpoint = "subscribe"
    /\ push.answers[2].r.kind = "response"
    /\ push.answers[2].r.status = 500
    /\ push.connect = "False"
    /\ ~push.connected
    /\ push.topics = <<>>
    /\ push.listen_task = NONE

\* C18: disconnect marks the client disconnected and cancels the listening
\* loop, unsubscribes only once the loop has ended, and unsubscribes the
\* topics connect subscribed; once it has returned, no listen request is
\* sent and the callback is not called any more.
C18_DisconnectStopsTheLoopFirst ==
    /\ [](/\ push.disconnect # "idle"
               => (~push.connected /\ (push.listen_task # NONE => push.cancelled))
          /\ push.disconnect \in { "unsubscribe", "returned" }
               => push.listen_task \in { NONE, "done" }
          /\ PushySentTo("unsubscribe") # {}
               => /\ push.listen_task \in { NONE, "done" }
                  /\ PushySentTo("unsubscribe") = { Len(push.sent) }
                  /\ \E i \in PushySentTo("subscribe") :
                       push.sent[i].topics = push.sent[Len(push.sent)].topics
          /\ (push.disconnect = "returned" /\ push.subscribed = "True")
               => PushySentTo("unsubscribe") # {})
    /\ [][push.disconnect = "returned"
            => /\ push'.sent = push.sent
               /\ push'.callbacks = push.callbacks
               /\ push'.rounds = push.rounds]_vars

\* C18 witness: the callback had been called, a listen request was pending
\* when disconnect cancelled the loop, the loop ended, the topics were
\* unsubscribed and disconnect returned.
C18_Witness ==
    /\ push.disconnect = "returned"
    /\ push.listen_task = "done"
    /\ Len(push.callbacks) = 1
    /\ Len(push.rounds) = 1
    /\ Cardinality(PushySentTo("listen")) = 2
    /\ push.sent[Len(push.sent)].endpoint = "unsubscribe"
    /\ push.sent[Len(push.sent)].topics = push.topics
    /\ push.topics # <<>>

\* C19: every listen response that carries a notification field has the
\* callback called exactly once, with that notification, and each call of
\* the callback requests one refresh.
C19_NotificationInvokesCallbackOnce ==
    /\ \A i \in DOMAIN push.rounds :
         LET o == push.rounds[i].outcome IN
         (o.kind = "response" /\ o.status = 200 /\ o.notification.t # "absent")
             => push.rounds[i].callback = <<o.notification>>
    /\ push.refresh_requests = Len(push.callbacks)

\* What holds: the callback is called once, with the notification, for a
\* 200 response whose notification is a non-empty object, and not at all
\* for any other outcome; each call requests one refresh.
NotificationRecordInvokesCallbackOnce ==
    /\ \A i \in DOMAIN push.rounds :
         LET o == push.rounds[i].outcome IN
         IF /\ o.kind = "response" /\ o.status = 200 /\ o.t = "dict"
            /\ o.notification.t = "dict" /\ o.notification.size > 0
         THEN push.rounds[i].callback = <<o.notification>>
         ELSE push.rounds[i].callback = <<>>
    /\ push.refresh_requests = Len(push.callbacks)

\* The listen request ended in an error: a response other than 200, or an
\* exception other than the long-poll timeout.
ListenError(o) ==
    \/ (o.kind = "response" /\ o.status # 200)
    \/ o.kind \notin { "response", "TimeoutError" }

\* C20: the loop sleeps 5 to 10 seconds before the next listen request
\* exactly when the listen request ended in an error; after a 200 response,
\* with or without a call of the callback, and after a long-poll timeout it
\* does not sleep.
C20_BackoffExactlyOnError ==
    \A i \in DOMAIN push.rounds :
        /\ push.rounds[i].slept > 0 <=> ListenError(push.rounds[i].outcome)
        /\ push.rounds[i].slept \in { 0, 5, 10 }

\* What holds: as claimed for the rounds in which the 200 body was an object
\* and the callback was not called for a notification; the round of a
\* notification delivered to the callback ends in TypeError and sleeps 10
\* seconds.
BackoffButAfterCallback ==
    \A i \in DOMAIN push.rounds :
        LET r == push.rounds[i] IN
        /\ r.callback # <<>> => (r.raised = "TypeError" /\ r.slept = 10)
        /\ (r.callback = <<>> /\ r.raised \notin { "AttributeError", "JSONDecodeError" })
             => (r.slept > 0 <=> ListenError(r.outcome))
        /\ r.outcome.kind = "TimeoutError" => r.slept = 0

\* C27: the listening loop does not end by itself. The task is done only
\* after disconnect() was called; a round that ended in a timeout, a non-200
\* answer or an error leaves the loop at its next listen request or in its
\* back-off sleep; and from its creation and from every back-off sleep the
\* loop gets to a listen request, unless disconnect() is called first.
C27_ListeningLoopEndsOnlyByDisconnect ==
    /\ [](push.listen_task = "done" => push.disconnect # "idle")
    /\ [][ push.rounds' # push.rounds
             => \/ push'.listen_task = "listen"
                   /\ Len(push'.sent) = Len(push.sent) + 1
                   /\ push'.sent[Len(push'.sent)].endpoint = "listen"
                \/ push'.listen_task = "sleep" /\ push'.sleep \in { 5, 10 } ]_vars
    /\ (push.listen_task \in { "created", "sleep" })
          ~> (push.listen_task = "listen" \/ push.disconnect # "idle")

\* C27 witness: the first listen request ended in an error and a back-off of
\* ten seconds, the second in a non-200 answer and a back-off of five, and
\* the loop, not disconnected, has sent its third listen request.
C27_Witness ==
    /\ Len(push.rounds) = 2
    /\ push.rounds[1].slept = 10
    /\ push.rounds[2].slept = 5
    /\ push.listen_task = "listen"
    /\ push.disconnect = "idle"
    /\ Cardinality(PushySentTo("listen")) = 3

====
